---- MODULE Spec2Model ----
(***************************************************************************)
(* Monte Carlo race-strategy simulator (F1_Simulation.py, both revisions   *)
(* kept in the repository: backend/src and apps/backend/src).              *)
(*                                                                         *)
(* Fixed-point units used for the floats of the source:                    *)
(*   time          milliseconds          (74.5 s      -> 74500)            *)
(*   tire wear     1/10000               (1.0         -> 10000)            *)
(*   fuel          grams                 (110.0 kg    -> 110000)           *)
(*   factors       percent               (1.45        -> 145)              *)
(*   temp factor   permille              (1.015       -> 1015)             *)
(*   probabilities percent, compared with a uniform draw u in 1..100       *)
(* A field "rev" of the configuration selects the revision of the source   *)
(* ("backend" or "apps") where the two differ.                             *)
(***************************************************************************)
EXTENDS Integers, Sequences, FiniteSets, TLC

VARIABLES
    cfg,        \* RaceConditions + TrackConfig + CarSetup + SimulationConfig
    sim,        \* the RaceSimulator instance: rng, competitor field, number
    strategy,   \* the Strategy object at hand (or the failed construction)
    call,       \* locals of the simulate_strategy call in progress
    run,        \* locals of the _simulate_single_run call in progress
    history,    \* per instance, the outcome of every call made so far
    opt,        \* locals of the StrategyOptimizer.evaluate_all call
    pc,         \* position of the driver program
    server,     \* api/server.py: active_connections, clients, broadcast
    dss         \* simulation/decision_system.py: DecisionSupportSystem

vars == <<cfg, sim, strategy, call, run, history, opt, pc, server, dss>>

-----------------------------------------------------------------------------
(* Bounds of the model *)

MaxRuns == 2        \* SimulationConfig.num_runs used by the model
MaxCalls == 2       \* Strategy evaluations made in SpecRepeat
MaxRunLaps == 4     \* race_laps of the single-run specification
MaxConnections == 3 \* WebSocket clients of the broadcast specification
MaxDecisions == 2   \* make_realtime_decision calls on one instance

-----------------------------------------------------------------------------
(* Program constants *)

WearOne == 10000            \* tire wear 1.0
NoPitLap == 9999            \* next_pit_lap when no stop remains
DnfTime == 1000000000       \* total_time of a DNF (1e9)
DnfThreshold == 100000000   \* a competitor below it finished (1e8)
MaxFuel == 110000           \* Strategy: F1 max fuel 110 kg
MinFuel == 80000            \* Strategy: starting fuel too low below 80 kg
TopTeams == 6               \* CompetitorField: top_teams
MaxMidfield == 8            \* CompetitorField: min(8, n - top_teams)

Compounds == {"soft", "medium", "hard", "intermediate", "wet"}

\* api/server.py at import: no connection yet, no broadcast in progress.
\* client[w] is where WebSocket w stands: "absent" (not yet connected),
\* "open" (accepted, its handler waits in receive_text), "closed" (the peer
\* has gone, its handler has not run yet), "removed" (its handler has
\* handled WebSocketDisconnect), "handler_raised" (list.remove raised in
\* the handler).  it is the position of the list iterator of
\* broadcast_update, connection its loop variable; sent and at_start record
\* how often each socket was sent the message and which sockets were
\* listed when the broadcast began.
Connections == 1..MaxConnections

NoServer ==
    [active_connections |-> <<>>,
     client |-> [w \in Connections |-> "absent"],
     broadcast |-> "idle",
     it |-> 0,
     connection |-> 0,
     disconnected |-> <<>>,
     sent |-> [w \in Connections |-> 0],
     at_start |-> {}]

\* DecisionSupportSystem.__init__: decision_history = [] and nothing else
\* (no config attribute).  calls counts the make_realtime_decision calls
\* made, asked holds the arguments of the latest one and last its outcome:
\* "returned", or the exception it raised.
NewDecisionSystem ==
    [decision_history |-> <<>>, calls |-> 0, asked |-> <<>>, last |-> "none"]

\* EngineMode values, in percent
ECO == 98
NORMAL == 100
PUSH == 102
OVERTAKE == 104

\* SimulationConfig.tire_properties: compound -> (speed offset ms,
\* base wear per lap in 1/10000, operating window)
tire_properties ==
    [c \in Compounds |->
        CASE c = "soft"         -> <<-800, 300, 25>>
          [] c = "medium"       -> <<0, 150, 20>>
          [] c = "hard"         -> <<600, 80, 15>>
          [] c = "intermediate" -> <<2000, 200, 10>>
          [] c = "wet"          -> <<5000, 150, 8>>]

-----------------------------------------------------------------------------
(* Arithmetic helpers *)

Max(a, b) == IF a >= b THEN a ELSE b
Min(a, b) == IF a <= b THEN a ELSE b
Clip(x, lo, hi) == Max(lo, Min(x, hi))

RECURSIVE SqrtSearch(_, _, _)
SqrtSearch(n, lo, hi) ==
    IF lo >= hi THEN lo
    ELSE LET mid == (lo + hi + 1) \div 2
         IN IF mid * mid <= n THEN SqrtSearch(n, mid, hi)
            ELSE SqrtSearch(n, lo, mid - 1)

\* floor of the square root
ISqrt(n) == SqrtSearch(n, 0, 46340)

\* wear ** 1.5 for wear in 1/10000, result in 1/10000
Pow15(w) == (w * ISqrt(100 * w)) \div 1000

\* len(set(xs))
Distinct(xs) == Cardinality({xs[i] : i \in DOMAIN xs})

-----------------------------------------------------------------------------
(* The seeded generator np.random.RandomState: a deterministic stream.     *)
(* A state is a number in 1..100; every scalar draw advances it   *)
(* by one step and reads the new state as a uniform u in 1..100.           *)

RandomState(seed) == 1 + (seed % 100)

RngNext(s) == (s * 42) % 101

\* 42 ** e modulo 101
RECURSIVE RngPower(_)
RngPower(e) ==
    IF e <= 0 THEN 1
    ELSE IF e % 2 = 1 THEN (42 * RngPower(e - 1)) % 101
    ELSE LET h == RngPower(e \div 2) IN (h * h) % 101

\* the state k draws after state s: RngNext applied k times
RngAdvance(s, k) == (s * RngPower(k)) % 101

\* the k-th uniform u (k >= 1) drawn from state s
RngU(s, k) == RngAdvance(s, k)

\* standard normal quantile of u, in tenths of a standard deviation
ZTenths(u) ==
    IF u <= 2 THEN -20
    ELSE IF u <= 16 THEN -10
    ELSE IF u <= 84 THEN 0
    ELSE IF u <= 98 THEN 10
    ELSE 20

\* rng.normal(mu, sigma) read from the uniform u
NormalOf(u, mu, sigma) == mu + (sigma * ZTenths(u)) \div 10

\* rng.uniform(lo, hi) read from the uniform u
UniformOf(u, lo, hi) == lo + ((hi - lo) * (u - 1)) \div 100

\* rng.randint(lo, hi) read from the uniform u (lo < hi required by numpy)
RandintOf(u, lo, hi) == lo + ((hi - lo) * (u - 1)) \div 100

-----------------------------------------------------------------------------
(* Strategy (dataclass) and its __post_init__.  The arguments are a record *)
(* [pit_laps, tire_compounds, starting_fuel, engine_modes]; engine_modes   *)
(* is {} for None and {m} for a given list m.  The apps revision has no    *)
(* starting_fuel field and no fuel check.  The field given of a Strategy   *)
(* remembers the engine_modes argument as it was passed.                   *)

NoStrategy ==
    [ok |-> FALSE, error |-> "none", pit_laps |-> <<>>, tire_compounds |-> <<>>,
     starting_fuel |-> 0, engine_modes |-> <<>>, given |-> {}]

RaisedStrategy(a, err) ==
    [ok |-> FALSE, error |-> err, pit_laps |-> a.pit_laps,
     tire_compounds |-> a.tire_compounds, starting_fuel |-> a.starting_fuel,
     engine_modes |-> <<>>, given |-> a.engine_modes]

\* variant: one entry per pit stop instead of one per stint
DefaultEngineModesPerStop(a) == [i \in 1..Len(a.pit_laps) |-> NORMAL]

DefaultEngineModes(a) == [i \in 1..(Len(a.pit_laps) + 1) |-> NORMAL]

StrategyPostInit(rev, a) ==
    IF Len(a.tire_compounds) # Len(a.pit_laps) + 1
    THEN RaisedStrategy(a, "ValueError: compounds")
    ELSE IF rev = "backend" /\ a.starting_fuel > MaxFuel
    THEN RaisedStrategy(a, "ValueError: fuel max")
    ELSE IF rev = "backend" /\ a.starting_fuel < MinFuel
    THEN RaisedStrategy(a, "ValueError: fuel low")
    ELSE [ok |-> TRUE, error |-> "none", pit_laps |-> a.pit_laps,
          tire_compounds |-> a.tire_compounds,
          starting_fuel |-> a.starting_fuel,
          engine_modes |-> IF a.engine_modes = {} THEN DefaultEngineModes(a)
                           ELSE CHOOSE m \in a.engine_modes : TRUE,
          given |-> a.engine_modes]

\* Strategy.is_fuel_feasible with burn_rate 1.4 kg: fuel >= laps * 1.4 * 0.95
IsFuelFeasible(s, race_laps) == s.starting_fuel * 100 >= race_laps * 1400 * 95

-----------------------------------------------------------------------------
(* Physics of the player car *)

\* CarEngineering.get_reliability_dnf_probability, in percent.  The two
\* exponentials of the mileage ratios are the parameter component_risk
\* (hundredths); the default car gives 109.
ReliabilityDnfProbability(c) ==
    Min((3 * (130 + c.component_risk) * c.race_laps) \div 6000, 50)

\* CarEngineering.get_fuel_consumption_rate, grams per lap
FuelConsumptionRate(c, engine_mode) ==
    LET base_consumption == (((c.fuel_flow_rate \div 60) * 3) \div 2) \div 60
    IN (((base_consumption * engine_mode) \div 100) * c.fuel_usage) \div 100

\* RaceSimulator._compute_fuel_burn (apps revision), grams per lap
ComputeFuelBurn(c, engine_mode) ==
    (((c.base_fuel_burn_rate * c.fuel_usage) \div 100) * engine_mode) \div 100

\* burn_rate of one lap, times the run's fuel multiplier
BurnRate(c, engine_mode, fuel_mult) ==
    IF c.rev = "backend"
    THEN (FuelConsumptionRate(c, engine_mode) * fuel_mult) \div 100
    ELSE (ComputeFuelBurn(c, engine_mode) * fuel_mult) \div 100

\* RaceSimulator._compute_wear_rate, in 1/10000 per lap
ComputeWearRate(c, compound) ==
    LET base_wear == tire_properties[compound][2]
        wear == (base_wear * c.tire_stress) \div 100
        temp_factor == 1000 + 15 * (c.track_temp - 25)
    IN (wear * temp_factor) \div 1000

\* tau_0 of _compute_lap_time
Tau0(c) == c.base_lap_time + c.performance_offset

\* the floor of _compute_lap_time: tau_0 * 0.90
LapFloor(c) == (Tau0(c) * 90) \div 100

\* variant: the floor applied before the noise is added
ComputeLapTimeFloorFirst(c, wear, fuel, compound, engine_mode, noise) ==
    LET tau_0 == Tau0(c)
        tau_wear == (c.k_wear_lap_time * Pow15(wear)) \div 10
        tau_fuel == IF c.rev = "backend"
                    THEN (c.k_fuel_lap_time * fuel) \div 1000
                    ELSE (c.k_fuel_lap_time * 50 * fuel) \div c.fuel_start
        tau_aero == IF c.rev = "backend" THEN 0
                    ELSE (c.k_downforce_lap_time * (100 - c.downforce)) \div 200
        compound_offset == tire_properties[compound][1]
        tau == ((tau_0 + tau_wear + tau_fuel + tau_aero + compound_offset) * 100)
                   \div engine_mode
    IN Max(tau, LapFloor(c)) + noise

\* RaceSimulator._compute_lap_time
ComputeLapTime(c, wear, fuel, compound, engine_mode, noise) ==
    LET tau_0 == Tau0(c)
        tau_wear == (c.k_wear_lap_time * Pow15(wear)) \div 10
        tau_fuel == IF c.rev = "backend"
                    THEN (c.k_fuel_lap_time * fuel) \div 1000
                    ELSE (c.k_fuel_lap_time * 50 * fuel) \div c.fuel_start
        tau_aero == IF c.rev = "backend" THEN 0
                    ELSE (c.k_downforce_lap_time * (100 - c.downforce)) \div 200
        compound_offset == tire_properties[compound][1]
        tau == ((tau_0 + tau_wear + tau_fuel + tau_aero + compound_offset) * 100)
                   \div engine_mode
    IN Max(tau + noise, LapFloor(c))

-----------------------------------------------------------------------------
(* RaceSimulator._simulate_single_run, as the state of its locals.         *)
(* status: "loop" while the lap loop runs, "returned" once the result dict *)
(* is returned, "raised" when an IndexError leaves the function.           *)
(* stint_idx and lap are 0-based as in the source.                         *)

Zeros(n) == [i \in 1..n |-> 0]

IdleRun ==
    [status |-> "idle", W |-> 0, fuel |-> 0, total_time |-> 0, dnf |-> FALSE,
     stint_idx |-> 0, current_compound |-> "medium",
     current_engine_mode |-> NORMAL, next_pit_lap |-> NoPitLap, lap |-> 0,
     pit_stops |-> <<>>,
     lap_times_out |-> <<>>, tire_wear_out |-> <<>>, fuel_out |-> <<>>,
     rng |-> 1]

\* the fuel the run starts with
RunStartFuel(c, s) == IF c.rev = "backend" THEN s.starting_fuel ELSE c.fuel_start

\* the reliability draw that opens a run (backend revision only)
RunOpensWithDraw(c) == c.rev = "backend"

\* lines up to the lap loop: initial locals, the reliability DNF check,
\* the first stint's compound and engine mode, the first pit lap
BeginRun(c, s, rng) ==
    LET draws == RunOpensWithDraw(c)
        rng1 == IF draws THEN RngNext(rng) ELSE rng
        dnf == draws /\ rng1 <= ReliabilityDnfProbability(c)
        base == [IdleRun EXCEPT
                    !.W = c.initial_tire_wear,
                    !.fuel = RunStartFuel(c, s),
                    !.rng = rng1,
                    !.lap_times_out = Zeros(c.race_laps),
                    !.tire_wear_out = Zeros(c.race_laps),
                    !.fuel_out = Zeros(c.race_laps)]
    IN IF dnf
       THEN [base EXCEPT !.status = "returned", !.dnf = TRUE]
       ELSE IF Len(s.engine_modes) = 0
       THEN [base EXCEPT !.status = "raised"]
       ELSE [base EXCEPT
                !.status = IF c.race_laps > 0 THEN "loop" ELSE "returned",
                !.current_compound = s.tire_compounds[1],
                !.current_engine_mode = s.engine_modes[1],
                !.next_pit_lap = IF Len(s.pit_laps) > 0 THEN s.pit_laps[1]
                                 ELSE NoPitLap]

\* puncture_prob of the apps revision, in percent
PunctureProb(c, W) ==
    (c.base_puncture_prob * (WearOne + c.puncture_wear_multiplier * W))
        \div WearOne

\* the per-lap puncture draw exists in the apps revision only
LapDrawsPuncture(c) == c.rev = "apps"

\* the fuel-depletion check exists in the backend revision only
FuelDepleted(c, fuel, lap) ==
    c.rev = "backend" /\ fuel <= 0 /\ lap < c.race_laps - 1

\* W after a driven lap
NextWear(c, W, compound, wear_mult) ==
    Min(W + (ComputeWearRate(c, compound) * wear_mult) \div 100, WearOne)

\* fuel after a driven lap
NextFuel(c, fuel, engine_mode, fuel_mult) ==
    Max(fuel - BurnRate(c, engine_mode, fuel_mult), 0)

\* the lap time under the safety car
SafetyCarLapTime(c) == (c.base_lap_time * c.safety_car_lap_time_factor) \div 100

\* variant: the stop that leaves the tire wear as it was
PitStopKeepsTires(c, s, rs) ==
    IF rs.lap + 1 # rs.next_pit_lap THEN rs
    ELSE
      LET idx == rs.stint_idx + 1
          r1 == [rs EXCEPT !.total_time = rs.total_time + c.pit_loss_time,
                           !.stint_idx = idx,
                           !.pit_stops = Append(rs.pit_stops, rs.lap + 1)]
      IN IF idx < Len(s.tire_compounds) /\ idx >= Len(s.engine_modes)
         THEN [r1 EXCEPT !.status = "raised"]
         ELSE
           LET r2 == IF idx < Len(s.tire_compounds)
                     THEN [r1 EXCEPT
                             !.current_compound = s.tire_compounds[idx + 1],
                             !.current_engine_mode = s.engine_modes[idx + 1]]
                     ELSE r1
           IN [r2 EXCEPT !.next_pit_lap =
                  IF idx < Len(s.pit_laps) THEN s.pit_laps[idx + 1]
                  ELSE NoPitLap]

\* the pit-stop block at the head of a loop iteration; the result has
\* status "raised" when engine_modes has no entry for the new stint
PitStop(c, s, rs) ==
    IF rs.lap + 1 # rs.next_pit_lap THEN rs
    ELSE
      LET idx == rs.stint_idx + 1
          r1 == [rs EXCEPT !.total_time = rs.total_time + c.pit_loss_time,
                           !.W = 0,
                           !.stint_idx = idx,
                           !.pit_stops = Append(rs.pit_stops, rs.lap + 1)]
      IN IF idx < Len(s.tire_compounds) /\ idx >= Len(s.engine_modes)
         THEN [r1 EXCEPT !.status = "raised"]
         ELSE
           LET r2 == IF idx < Len(s.tire_compounds)
                     THEN [r1 EXCEPT
                             !.current_compound = s.tire_compounds[idx + 1],
                             !.current_engine_mode = s.engine_modes[idx + 1]]
                     ELSE r1
           IN [r2 EXCEPT !.next_pit_lap =
                  IF idx < Len(s.pit_laps) THEN s.pit_laps[idx + 1]
                  ELSE NoPitLap]

\* one iteration of the lap loop (and the return that follows the last one)
LapBody(c, s, rs, wear_mult, fuel_mult, noise, safety_car) ==
    LET p == PitStop(c, s, rs)
    IN IF p.status = "raised" THEN p
       ELSE
         LET formula == ComputeLapTime(c, p.W, p.fuel, p.current_compound,
                                       p.current_engine_mode, noise)
             lap_time == IF safety_car THEN SafetyCarLapTime(c) ELSE formula
             rng1 == IF LapDrawsPuncture(c) THEN RngNext(p.rng) ELSE p.rng
             puncture == LapDrawsPuncture(c) /\ rng1 <= PunctureProb(c, p.W)
             W1 == NextWear(c, p.W, p.current_compound, wear_mult)
             fuel1 == NextFuel(c, p.fuel, p.current_engine_mode, fuel_mult)
             total1 == p.total_time + lap_time
             i == p.lap + 1
         IN IF puncture
            THEN [p EXCEPT !.rng = rng1, !.dnf = TRUE, !.status = "returned"]
            ELSE IF FuelDepleted(c, fuel1, p.lap)
            THEN [p EXCEPT !.rng = rng1, !.total_time = total1, !.W = W1,
                           !.fuel = fuel1, !.dnf = TRUE,
                           !.status = "returned"]
            ELSE [p EXCEPT !.rng = rng1, !.total_time = total1, !.W = W1,
                           !.fuel = fuel1,
                           !.lap_times_out[i] = lap_time,
                           !.tire_wear_out[i] = W1,
                           !.fuel_out[i] = fuel1,
                           !.lap = i,
                           !.status = IF i >= c.race_laps THEN "returned"
                                      ELSE "loop"]

\* variant: the accumulated time returned whether or not the run ended
\* in a DNF
RunResultElapsed(rs) ==
    [lap_times |-> rs.lap_times_out, tire_wear |-> rs.tire_wear_out,
     fuel |-> rs.fuel_out, total_time |-> rs.total_time, dnf |-> rs.dnf]

\* the dict _simulate_single_run returns
RunResult(rs) ==
    [lap_times |-> rs.lap_times_out, tire_wear |-> rs.tire_wear_out,
     fuel |-> rs.fuel_out,
     total_time |-> IF rs.dnf THEN DnfTime ELSE rs.total_time,
     dnf |-> rs.dnf]

\* the iterations lo..hi (1-based laps) of the lap loop, taken by halves;
\* an iteration is skipped once the function has returned or raised
RECURSIVE RunLoop(_, _, _, _, _, _, _, _, _)
RunLoop(c, s, rs, wear_mult, fuel_mult, lap_noise, safety_cars, lo, hi) ==
    IF lo > hi \/ rs.status # "loop" THEN rs
    ELSE IF lo = hi
    THEN LapBody(c, s, rs, wear_mult, fuel_mult, lap_noise[lo],
                 safety_cars[lo])
    ELSE LET mid == (lo + hi) \div 2
             half == RunLoop(c, s, rs, wear_mult, fuel_mult, lap_noise,
                             safety_cars, lo, mid)
         IN RunLoop(c, s, half, wear_mult, fuel_mult, lap_noise, safety_cars,
                    mid + 1, hi)

\* the whole of _simulate_single_run
SimulateSingleRun(c, s, rng, wear_mult, fuel_mult, lap_noise, safety_cars) ==
    RunLoop(c, s, BeginRun(c, s, rng), wear_mult, fuel_mult, lap_noise,
            safety_cars, 1, c.race_laps)

-----------------------------------------------------------------------------
(* Configurations.  DefaultConfig holds the defaults of the dataclasses    *)
(* (TrackConfig, CarSetup, RaceConditions, SimulationConfig) of revision   *)
(* rev; the scenarios change single fields.                                *)

DefaultConfig(rev) ==
    [rev |-> rev,
     \* RaceConditions
     race_laps |-> 44, track_temp |-> 25, safety_car_prob |-> 2,
     num_competitors |-> 6, min_compounds_required |-> 2,
     refueling_allowed |-> FALSE,
     \* TrackConfig
     base_lap_time |-> 74500, pit_loss_time |-> 22000, tire_stress |-> 100,
     fuel_usage |-> 100,
     \* CarSetup / CarEngineering
     fuel_start |-> 110000, initial_tire_wear |-> 0,
     performance_offset |-> 0, downforce |-> 50, component_risk |-> 109,
     fuel_flow_rate |-> 100000,
     \* SimulationConfig
     num_runs |-> MaxRuns, random_seed |-> 42,
     k_wear_lap_time |-> 12, k_fuel_lap_time |-> 30,
     k_downforce_lap_time |-> 1200,
     lap_time_noise_std |-> IF rev = "backend" THEN 350 ELSE 150,
     wear_rate_noise_std |-> IF rev = "backend" THEN 25 ELSE 20,
     fuel_burn_noise_std |-> IF rev = "backend" THEN 8 ELSE 5,
     base_fuel_burn_rate |-> IF rev = "backend" THEN 1300 ELSE 1400,
     base_puncture_prob |-> 0, puncture_wear_multiplier |-> 5,
     safety_car_lap_time_factor |-> 145]

Revisions == {"backend", "apps"}

\* a fuel_usage under which the tank runs dry within three laps
ThirstyFuelUsage(rev) == IF rev = "backend" THEN 100000 ELSE 3000

\* scenarios of the single-run specification
RunScenario(rev, name, laps) ==
    LET d == [DefaultConfig(rev) EXCEPT !.race_laps = laps]
    IN CASE name = "default" -> [d EXCEPT !.fuel_start = 105000]
         [] name = "harsh" ->
              [d EXCEPT !.tire_stress = 3000, !.track_temp = 45,
                        !.fuel_usage = ThirstyFuelUsage(rev),
                        !.initial_tire_wear = 2000]
         [] name = "fragile" ->
              [d EXCEPT !.base_puncture_prob = 20, !.component_risk = 9000,
                        !.lap_time_noise_std = 5000,
                        !.refueling_allowed = TRUE]
         [] name = "worn" ->
              [d EXCEPT !.initial_tire_wear = WearOne, !.tire_stress = 3000,
                        !.lap_time_noise_std = 20000]

RunConfigs ==
    {RunScenario(rev, name, laps) :
        rev \in Revisions, name \in {"default", "harsh", "fragile", "worn"},
        laps \in {MaxRunLaps - 1, MaxRunLaps}}

\* Strategy arguments tried by the single-run specification
RunStrategyArgs ==
    {[pit_laps |-> <<>>, tire_compounds |-> <<"medium">>,
      starting_fuel |-> 105000, engine_modes |-> {}],
     [pit_laps |-> <<2>>, tire_compounds |-> <<"soft", "hard">>,
      starting_fuel |-> 107000, engine_modes |-> {}],
     [pit_laps |-> <<1, 3>>, tire_compounds |-> <<"soft", "medium", "hard">>,
      starting_fuel |-> 105000, engine_modes |-> {<<PUSH, NORMAL, ECO>>}],
     [pit_laps |-> <<3, 2>>, tire_compounds |-> <<"soft", "medium", "hard">>,
      starting_fuel |-> 107000, engine_modes |-> {}],
     [pit_laps |-> <<0>>, tire_compounds |-> <<"medium", "hard">>,
      starting_fuel |-> 105000, engine_modes |-> {}],
     [pit_laps |-> <<2>>, tire_compounds |-> <<"medium", "soft">>,
      starting_fuel |-> 105000, engine_modes |-> {<<OVERTAKE>>}]}

\* variant: the comparison made against one compound fewer
RuleViolationOffByOne(c, s) ==
    /\ ~c.refueling_allowed
    /\ Distinct(s.tire_compounds) < c.min_compounds_required - 1

\* the rule check at the entry of simulate_strategy
RuleViolation(c, s) ==
    /\ ~c.refueling_allowed
    /\ Distinct(s.tire_compounds) < c.min_compounds_required

\* the values np.clip(rng.normal(1.0, std, n), lo, hi) takes
WearMultiplierOf(c, u) == Clip(NormalOf(u, 100, c.wear_rate_noise_std), 60, 140)
FuelMultiplierOf(c, u) == Clip(NormalOf(u, 100, c.fuel_burn_noise_std), 90, 110)

\* the standard deviation lap_noise is drawn with
LapNoiseStd(c) ==
    IF c.rev = "backend" THEN (c.lap_time_noise_std * 13) \div 10
    ELSE c.lap_time_noise_std
LapNoiseOf(c, u) == NormalOf(u, 0, LapNoiseStd(c))

-----------------------------------------------------------------------------
(* Locals of simulate_strategy *)

IdleCall ==
    [wear_multipliers |-> <<>>, fuel_multipliers |-> <<>>, lap_noise |-> <<>>,
     safety_cars |-> <<>>, competitor_times |-> <<>>, run_idx |-> 0,
     lap_times |-> <<>>, tire_wear |-> <<>>, fuel_level |-> <<>>,
     total_times |-> <<>>, dnf_flags |-> <<>>, rng_entry |-> 0,
     rng_loop |-> 0]

\* lines 607-611: the result of run run_idx stored in the arrays
StoreRun(cl, res) ==
    LET i == cl.run_idx + 1
    IN [cl EXCEPT !.lap_times[i] = res.lap_times,
                  !.tire_wear[i] = res.tire_wear,
                  !.fuel_level[i] = res.fuel,
                  !.total_times[i] = res.total_time,
                  !.dnf_flags[i] = res.dnf,
                  !.run_idx = cl.run_idx + 1]

\* evaluate_all before it is called: strategies is its argument, i the
\* index of the loop, results the list of (strategy, sim_results, utility)
\* with sim_results given as the index of the call in history; generated
\* tells whether strategies came from generate_strategies
IdleOpt ==
    [status |-> "idle", strategies |-> <<>>, i |-> 0, results |-> <<>>,
     risk_tolerance |-> 50, generated |-> FALSE]

NoSim ==
    [inst |-> 1, ok |-> TRUE, rng |-> 1, competitor_base_pace |-> <<>>,
     competitor_strategies |-> <<>>]

-----------------------------------------------------------------------------
(* SpecRun: one call of _simulate_single_run, lap by lap, its arguments    *)
(* drawn from bounded sets.                                                *)

SafetyCarPatterns(laps) ==
    {[i \in 1..laps |-> FALSE], [i \in 1..laps |-> TRUE],
     [i \in 1..laps |-> i = 2]}

RunInit ==
    /\ cfg \in {[c EXCEPT !.num_runs = 1] : c \in RunConfigs}
    /\ strategy \in {StrategyPostInit(cfg.rev, a) : a \in RunStrategyArgs}
    /\ strategy.ok
    /\ ~RuleViolation(cfg, strategy)
    /\ \E wu \in {1, 50, 100}, fu \in {1, 100}, nu \in {1, 50, 90},
          sc \in SafetyCarPatterns(cfg.race_laps) :
          call = [IdleCall EXCEPT
                    !.wear_multipliers = <<WearMultiplierOf(cfg, wu)>>,
                    !.fuel_multipliers = <<FuelMultiplierOf(cfg, fu)>>,
                    !.lap_noise = <<[i \in 1..cfg.race_laps |->
                                        LapNoiseOf(cfg, nu)]>>,
                    !.safety_cars = <<sc>>,
                    !.lap_times = <<Zeros(cfg.race_laps)>>,
                    !.tire_wear = <<Zeros(cfg.race_laps)>>,
                    !.fuel_level = <<Zeros(cfg.race_laps)>>,
                    !.total_times = <<0>>,
                    !.dnf_flags = <<FALSE>>]
    /\ \E r \in {7, 40, 41} : sim = [NoSim EXCEPT !.rng = r]
    /\ run = IdleRun
    /\ history = <<>>
    /\ opt = IdleOpt
    /\ pc = "single_run"
    /\ server = NoServer
    /\ dss = NewDecisionSystem

\* the call enters _simulate_single_run
StartRun ==
    /\ pc = "single_run"
    /\ run.status = "idle"
    /\ run' = BeginRun(cfg, strategy, sim.rng)
    /\ UNCHANGED <<cfg, sim, strategy, call, history, pc, opt, server, dss>>

\* one iteration of the lap loop
Lap ==
    /\ pc = "single_run"
    /\ run.status = "loop"
    /\ LET i == call.run_idx + 1
       IN run' = LapBody(cfg, strategy, run, call.wear_multipliers[i],
                         call.fuel_multipliers[i],
                         call.lap_noise[i][run.lap + 1],
                         call.safety_cars[i][run.lap + 1])
    /\ UNCHANGED <<cfg, sim, strategy, call, history, pc, opt, server, dss>>

\* the result dict reaches simulate_strategy, which stores it
ReturnRun ==
    /\ pc = "single_run"
    /\ run.status = "returned"
    /\ call' = StoreRun(call, RunResult(run))
    /\ sim' = [sim EXCEPT !.rng = run.rng]
    /\ pc' = "run_done"
    /\ UNCHANGED <<cfg, strategy, run, history, opt, server, dss>>

\* an IndexError leaves _simulate_single_run
RaiseRun ==
    /\ pc = "single_run"
    /\ run.status = "raised"
    /\ sim' = [sim EXCEPT !.rng = run.rng]
    /\ pc' = "run_raised"
    /\ UNCHANGED <<cfg, strategy, call, run, history, opt, server, dss>>

RunNext == StartRun \/ Lap \/ ReturnRun \/ RaiseRun

SpecRun == RunInit /\ [][RunNext]_vars

-----------------------------------------------------------------------------
(* CompetitorField: built once by RaceSimulator.__init__ from self.rng.    *)
(* Every operator returns the generator state it leaves behind; ok is      *)
(* FALSE when numpy raises ValueError.                                     *)

\* tier sizes of _generate_realistic_field
MidfieldSize(n) == Min(MaxMidfield, n - TopTeams)
BackmarkerSize(n) == n - TopTeams - MidfieldSize(n)

\* uniform range (ms per lap) of the tier competitor i (1-based) falls in
TierRange(c, i) ==
    LET n == c.num_competitors
    IN IF i <= TopTeams
       THEN IF c.rev = "backend" THEN <<-300, 400>> ELSE <<-800, -200>>
       ELSE IF i <= TopTeams + MidfieldSize(n)
       THEN IF c.rev = "backend" THEN <<400, 1200>> ELSE <<-200, 800>>
       ELSE IF c.rev = "backend" THEN <<1200, 2500>> ELSE <<800, 2000>>

\* _generate_realistic_field: n uniforms (tier by tier), then n normals
GenerateRealisticField(c, rng) ==
    LET n == c.num_competitors
    IN IF n < TopTeams
       THEN [ok |-> FALSE, rng |-> RngAdvance(rng, TopTeams), pace |-> <<>>]
       ELSE [ok |-> TRUE, rng |-> RngAdvance(rng, 2 * n),
             pace |-> [i \in 1..n |->
                         UniformOf(RngU(rng, i), TierRange(c, i)[1],
                                   TierRange(c, i)[2])
                         + NormalOf(RngU(rng, n + i), 0, 100)]]

OneStopOptions(c) ==
    IF c.rev = "backend"
    THEN << <<"medium", "hard">>, <<"soft", "hard">> >>
    ELSE << <<"medium", "hard">>, <<"soft", "hard">>,
            <<"hard", "medium">>, <<"soft", "medium">> >>

TwoStopOptions(c) ==
    IF c.rev = "backend"
    THEN << <<"soft", "medium", "medium">> >>
    ELSE << <<"soft", "medium", "medium">>, <<"medium", "medium", "soft">>,
            <<"soft", "soft", "medium">>, <<"soft", "medium", "hard">>,
            <<"medium", "soft", "medium">> >>

\* the strategy drawn for one competitor, from generator state rng
AssignOneStrategy(c, rng) ==
    LET L == c.race_laps
        \* backend draws start_fuel first; apps has no fuel
        k0 == IF c.rev = "backend" THEN 1 ELSE 0
        start_fuel == IF c.rev = "backend"
                      THEN UniformOf(RngU(rng, 1), 100000, 110000) ELSE 0
        one_stop == RngU(rng, k0 + 1) <= 65
    IN IF one_stop
       THEN LET lo == Max(L \div 3, 15)
                hi == Min((2 * L) \div 3, L - 10)
            IN IF lo >= hi
               THEN [ok |-> FALSE, rng |-> RngAdvance(rng, k0 + 1),
                     strategy |-> NoStrategy]
               ELSE LET pit_lap == RandintOf(RngU(rng, k0 + 2), lo, hi)
                        opts == OneStopOptions(c)
                        pick == RandintOf(RngU(rng, k0 + 3), 0, Len(opts))
                        st == StrategyPostInit(c.rev,
                                [pit_laps |-> <<pit_lap>>,
                                 tire_compounds |-> opts[pick + 1],
                                 starting_fuel |-> start_fuel,
                                 engine_modes |-> {}])
                    IN [ok |-> st.ok, rng |-> RngAdvance(rng, k0 + 3),
                        strategy |-> st]
       ELSE LET lo1 == Max(L \div 5, 10)
                hi1 == Max(L \div 3, 20)
                pit1 == RandintOf(RngU(rng, k0 + 2), lo1, hi1)
                lo2 == pit1 + 12
                hi2 == Min((3 * L) \div 4, L - 8)
            IN IF lo2 >= hi2
               THEN [ok |-> FALSE, rng |-> RngAdvance(rng, k0 + 2),
                     strategy |-> NoStrategy]
               ELSE LET pit2 == RandintOf(RngU(rng, k0 + 3), lo2, hi2)
                        opts == TwoStopOptions(c)
                        k1 == IF c.rev = "backend" THEN 0 ELSE 1
                        pick == IF c.rev = "backend" THEN 0
                                ELSE RandintOf(RngU(rng, k0 + 4), 0, Len(opts))
                        st == StrategyPostInit(c.rev,
                                [pit_laps |-> <<pit1, pit2>>,
                                 tire_compounds |-> opts[pick + 1],
                                 starting_fuel |-> start_fuel,
                                 engine_modes |-> {}])
                    IN [ok |-> st.ok, rng |-> RngAdvance(rng, k0 + 3 + k1),
                        strategy |-> st]

\* _assign_competitor_strategies: the loop over the competitors
RECURSIVE AssignLoop(_, _, _, _)
AssignLoop(c, i, rng, acc) ==
    IF i >= c.num_competitors
    THEN [ok |-> TRUE, rng |-> rng, strategies |-> acc]
    ELSE LET one == AssignOneStrategy(c, rng)
         IN IF ~one.ok
            THEN [ok |-> FALSE, rng |-> one.rng, strategies |-> acc]
            ELSE AssignLoop(c, i + 1, one.rng, Append(acc, one.strategy))

AssignCompetitorStrategies(c, rng) == AssignLoop(c, 0, rng, <<>>)

\* CompetitorField.__init__
CompetitorField(c, rng) ==
    LET f == GenerateRealisticField(c, rng)
    IN IF ~f.ok
       THEN [ok |-> FALSE, rng |-> f.rng, competitor_base_pace |-> <<>>,
             competitor_strategies |-> <<>>]
       ELSE LET a == AssignCompetitorStrategies(c, f.rng)
            IN [ok |-> a.ok, rng |-> a.rng,
                competitor_base_pace |-> f.pace,
                competitor_strategies |-> a.strategies]

-----------------------------------------------------------------------------
(* Competitor times of one simulate_strategy call *)

\* stint_laps of _calculate_expected_race_time
StintLaps(pit_laps, race_laps) ==
    LET ends == Append(pit_laps, race_laps)
    IN [i \in 1..Len(ends) |-> ends[i] - (IF i = 1 THEN 0 ELSE ends[i - 1])]

\* the sum of f[lo..hi], summed by halves
RECURSIVE SumRange(_, _, _)
SumRange(f, lo, hi) ==
    IF lo > hi THEN 0
    ELSE IF lo = hi THEN f[lo]
    ELSE LET mid == (lo + hi) \div 2
         IN SumRange(f, lo, mid) + SumRange(f, mid + 1, hi)

\* laps driven before stint stint_idx (0-based) begins: current_lap there
LapsBefore(stint_laps, stint_idx) ==
    SumRange([j \in 1..stint_idx |-> Max(stint_laps[j], 0)], 1, stint_idx)

\* fuel on board at lap current_lap (0-based) of the expected race time:
\* the backend burns base_fuel_burn_rate * fuel_usage a lap, floored at 0
ExpectedFuel(c, starting_fuel, current_lap) ==
    Max(starting_fuel
        - current_lap * ((c.base_fuel_burn_rate * c.fuel_usage) \div 100), 0)

\* fuel effect of one lap of the expected race time
ExpectedFuelEffect(c, starting_fuel, current_lap) ==
    IF c.rev = "backend"
    THEN (c.k_fuel_lap_time * ExpectedFuel(c, starting_fuel, current_lap))
             \div 1000
    ELSE (c.k_fuel_lap_time * 50 * (c.race_laps - current_lap))
             \div c.race_laps

\* lap_time of lap k (lap_in_stint) of a stint that begins at lap first
\* (current_lap), the race having started with fuel0 (starting_fuel)
ExpectedLapTime(c, base_pace, compound, stint_length, k, fuel0, first) ==
    LET props == tire_properties[compound]
        tire_wear == (k * props[2] * stint_length) \div Max(stint_length, 1)
        tire_deg == (c.k_wear_lap_time * Pow15(tire_wear)) \div 10
    IN c.base_lap_time + base_pace + props[1] + tire_deg
       + ExpectedFuelEffect(c, fuel0, first + k)

\* the inner loop: the laps of stint stint_idx (0-based)
ExpectedStint(c, base_pace, s, stint_laps, stint_idx, starting_fuel) ==
    LET stint_length == stint_laps[stint_idx + 1]
        first == LapsBefore(stint_laps, stint_idx)
    IN SumRange([k \in 0..(stint_length - 1) |->
                    ExpectedLapTime(c, base_pace,
                                    s.tire_compounds[stint_idx + 1],
                                    stint_length, k, starting_fuel, first)],
                0, stint_length - 1)

\* RaceSimulator._calculate_expected_race_time: the stints, and one pit
\* loss after every stint but the last
CalculateExpectedRaceTime(c, base_pace, s, starting_fuel) ==
    LET stint_laps == StintLaps(s.pit_laps, c.race_laps)
    IN SumRange([j \in 1..Len(stint_laps) |->
                    ExpectedStint(c, base_pace, s, stint_laps, j - 1,
                                  starting_fuel)],
                1, Len(stint_laps))
       + Len(s.pit_laps) * c.pit_loss_time

\* DNF probability of a competitor, in percent
CompetitorDnfProb(c, base_pace) ==
    IF c.rev = "backend" THEN (3 * (2000 + Max(0, base_pace))) \div 2000
    ELSE 3 + Max(0, base_pace) \div 1000

\* total_std of a competitor's run, in ms
CompetitorTotalStd(c, s) ==
    LET lap_variance_total ==
            (c.lap_time_noise_std * ISqrt(10000 * c.race_laps)) \div 100
        pit_variance == 500 * Len(s.pit_laps)
        incident == IF c.rev = "backend" THEN 4000 ELSE 2000
    IN ISqrt(lap_variance_total * lap_variance_total
             + pit_variance * pit_variance + incident * incident)

\* probability (percent) and width (percent of total_std) of an outlier
OutlierProb(c) == IF c.rev = "backend" THEN 8 ELSE 5
OutlierWidth(c) == IF c.rev = "backend" THEN 150 ELSE 200

\* lower clamp of a competitor's time, percent of the expected time
CompetitorFloor(c) == IF c.rev = "backend" THEN 88 ELSE 92

\* one competitor in one run: the body of the inner loop
CompetitorRun(c, expected_time, total_std, dnf_prob, rng) ==
    IF RngU(rng, 1) <= dnf_prob
    THEN [time |-> DnfTime, rng |-> RngAdvance(rng, 1)]
    ELSE LET random_events == NormalOf(RngU(rng, 2), 0, 2000)
             run_variance == NormalOf(RngU(rng, 3), 0, total_std)
             outlier == RngU(rng, 4) <= OutlierProb(c)
             extra == IF outlier
                      THEN NormalOf(RngU(rng, 5), 0,
                                    (total_std * OutlierWidth(c)) \div 100)
                      ELSE 0
             race_time == expected_time + run_variance + random_events + extra
         IN [time |-> Max(race_time,
                          (expected_time \div 100) * CompetitorFloor(c)),
             rng |-> RngAdvance(rng, IF outlier THEN 5 ELSE 4)]

\* the runs run_idx.. (0-based) of one competitor; acc holds its times
RECURSIVE CompetitorRuns(_, _, _, _, _, _, _)
CompetitorRuns(c, expected_time, total_std, dnf_prob, run_idx, rng, acc) ==
    IF run_idx >= c.num_runs THEN [times |-> acc, rng |-> rng]
    ELSE LET r == CompetitorRun(c, expected_time, total_std, dnf_prob, rng)
         IN CompetitorRuns(c, expected_time, total_std, dnf_prob,
                           run_idx + 1, r.rng, Append(acc, r.time))

\* the competitors comp_idx.. (0-based); acc holds one column each
RECURSIVE CompetitorColumns(_, _, _, _, _)
CompetitorColumns(c, field, comp_idx, rng, acc) ==
    IF comp_idx >= c.num_competitors THEN [columns |-> acc, rng |-> rng]
    ELSE LET base_pace == field.competitor_base_pace[comp_idx + 1]
             s == field.competitor_strategies[comp_idx + 1]
             rng0 == IF c.rev = "backend" THEN RngAdvance(rng, 1) ELSE rng
             competitor_fuel ==
                 IF c.rev = "backend"
                 THEN UniformOf(RngU(rng, 1), 105000, 109000) ELSE 0
             expected_time ==
                 CalculateExpectedRaceTime(c, base_pace, s, competitor_fuel)
             col == CompetitorRuns(c, expected_time, CompetitorTotalStd(c, s),
                                   CompetitorDnfProb(c, base_pace), 0, rng0,
                                   <<>>)
         IN CompetitorColumns(c, field, comp_idx + 1, col.rng,
                              Append(acc, col.times))

\* RaceSimulator._simulate_competitor_field_stochastic:
\* times[run][competitor], and the generator state left behind
SimulateCompetitorFieldStochastic(c, field, rng) ==
    LET cols == CompetitorColumns(c, field, 0, rng, <<>>)
    IN [times |-> [r \in 1..c.num_runs |->
                     [k \in 1..c.num_competitors |-> cols.columns[k][r]]],
        rng |-> cols.rng]

-----------------------------------------------------------------------------
(* Finishing positions *)

\* np.sum(row < t)
CountBelow(row, t) == Cardinality({k \in DOMAIN row : row[k] < t})

\* variant: a competitor with the player's time counts as faster
ComputePositionsTies(c, our_times, our_dnf_flags, competitor_times) ==
    [run_idx \in 1..c.num_runs |->
        IF our_dnf_flags[run_idx]
        THEN CountBelow(competitor_times[run_idx], DnfThreshold) + 1
        ELSE CountBelow(competitor_times[run_idx], our_times[run_idx] + 1) + 1]

\* variant: the count itself, without the + 1
ComputePositionsZeroBased(c, our_times, our_dnf_flags, competitor_times) ==
    [run_idx \in 1..c.num_runs |->
        IF our_dnf_flags[run_idx]
        THEN CountBelow(competitor_times[run_idx], DnfThreshold)
        ELSE CountBelow(competitor_times[run_idx], our_times[run_idx])]

\* variant: a player who did not finish is not ranked against the field
ComputePositionsDnfUnranked(c, our_times, our_dnf_flags, competitor_times) ==
    [run_idx \in 1..c.num_runs |->
        IF our_dnf_flags[run_idx] THEN 1
        ELSE CountBelow(competitor_times[run_idx], our_times[run_idx]) + 1]

\* RaceSimulator._compute_positions_stochastic
ComputePositionsStochastic(c, our_times, our_dnf_flags, competitor_times) ==
    [run_idx \in 1..c.num_runs |->
        IF our_dnf_flags[run_idx]
        THEN CountBelow(competitor_times[run_idx], DnfThreshold) + 1
        ELSE CountBelow(competitor_times[run_idx], our_times[run_idx]) + 1]

-----------------------------------------------------------------------------
(* SimulationResults: statistics and utility.  Probabilities are percent,  *)
(* utilities are thousandths.  A statistics dict is a record whose field   *)
(* keys is the set of keys the dict holds; of the twenty keys of the full  *)
(* dict the record carries the scalar ones the utility and the ranking use *)
(* (the others are listed in keys only).                                   *)

Infinity == 2000000000

NoStats ==
    [keys |-> {}, mean_time |-> 0, median_time |-> 0, std_time |-> 0,
     min_time |-> 0, max_time |-> 0, mean_position |-> 0,
     median_position |-> 0, win_probability |-> 0, podium_probability |-> 0,
     top5_probability |-> 0, top10_probability |-> 0, dnf_probability |-> 0,
     cvar_10 |-> 0, cvar_5 |-> 0]

AllDnfStats ==
    [NoStats EXCEPT
        !.keys = {"mean_time", "win_probability", "podium_probability",
                  "dnf_probability"},
        !.mean_time = Infinity, !.dnf_probability = 100]

FullKeys ==
    {"mean_time", "median_time", "std_time", "min_time", "max_time",
     "mean_position", "median_position", "win_probability",
     "podium_probability", "top5_probability", "top10_probability",
     "dnf_probability", "cvar_10", "cvar_5", "position_distribution",
     "time_percentiles", "mean_lap_times", "std_lap_times", "mean_tire_wear",
     "mean_fuel"}

\* indices of the runs that finished: valid_mask
ValidRuns(res) == {i \in DOMAIN res.dnf_flags : ~res.dnf_flags[i]}

RECURSIVE SumOver(_, _)
SumOver(f, S) ==
    IF S = {} THEN 0
    ELSE LET x == CHOOSE y \in S : TRUE IN f[x] + SumOver(f, S \ {x})

\* np.mean over the runs in S
MeanOver(f, S) == SumOver(f, S) \div Cardinality(S)

\* np.std over the runs in S (deviations taken in hundredths of a second)
StdOver(f, S) ==
    LET m == MeanOver(f, S)
        sq == [i \in S |-> ((f[i] - m) \div 10) * ((f[i] - m) \div 10)]
    IN 10 * ISqrt(MeanOver(sq, S))

\* the k-th smallest of the values f takes on S (k in 1..|S|): np.sort
KthSmallest(f, S, k) ==
    CHOOSE v \in {f[i] : i \in S} :
        /\ Cardinality({i \in S : f[i] < v}) < k
        /\ Cardinality({i \in S : f[i] <= v}) >= k

\* np.median over the runs in S
MedianOver(f, S) ==
    LET n == Cardinality(S)
    IN IF n % 2 = 1 THEN KthSmallest(f, S, (n + 1) \div 2)
       ELSE (KthSmallest(f, S, n \div 2) + KthSmallest(f, S, n \div 2 + 1))
                \div 2

\* np.mean(np.sort(f)[-int(share * len(f)):]) with share = 1/den: the mean
\* of the int(len/den) largest values, and of all of them when that
\* number is 0 (the slice [-0:] is the whole array)
TailMean(f, S, den) ==
    LET n == Cardinality(S)
        k == n \div den
    IN IF k = 0 THEN MeanOver(f, S)
       ELSE SumRange([j \in 1..n |-> KthSmallest(f, S, j)], n - k + 1, n)
                \div k

\* percentage of the runs in S that satisfy the flags
ShareOver(flags, S) ==
    (100 * Cardinality({i \in S : flags[i]})) \div Cardinality(S)

\* the dict get_statistics computes when the cache is empty
ComputeStatistics(res) ==
    LET valid == ValidRuns(res)
        all == DOMAIN res.dnf_flags
    IN IF valid = {} THEN AllDnfStats
       ELSE [keys |-> FullKeys,
             mean_time |-> MeanOver(res.total_times, valid),
             std_time |-> StdOver(res.total_times, valid),
             min_time |-> CHOOSE t \in {res.total_times[i] : i \in valid} :
                            \A i \in valid : t <= res.total_times[i],
             max_time |-> CHOOSE t \in {res.total_times[i] : i \in valid} :
                            \A i \in valid : t >= res.total_times[i],
             median_time |-> MedianOver(res.total_times, valid),
             mean_position |-> MeanOver([i \in valid |->
                                           100 * res.positions[i]], valid),
             median_position |-> MedianOver([i \in valid |->
                                           100 * res.positions[i]], valid),
             top5_probability |->
                 ShareOver([i \in valid |-> res.positions[i] <= 5], valid),
             top10_probability |->
                 ShareOver([i \in valid |-> res.positions[i] <= 10], valid),
             cvar_10 |-> TailMean(res.total_times, all, 10),
             cvar_5 |-> TailMean(res.total_times, all, 20),
             win_probability |->
                 ShareOver([i \in valid |-> res.positions[i] = 1], valid),
             podium_probability |->
                 ShareOver([i \in valid |-> res.positions[i] <= 3], valid),
             dnf_probability |-> ShareOver(res.dnf_flags, all)]

\* SimulationResults.get_statistics: the dict returned, the cache after,
\* and how many times the object has built a dict so far
GetStatisticsOf(res) ==
    IF res.stats.keys # {}
    THEN [returned |-> res.stats, cache |-> res.stats,
          computed |-> res.computed]
    ELSE LET st == ComputeStatistics(res)
         IN IF ValidRuns(res) = {}
            THEN [returned |-> st, cache |-> res.stats,
                  computed |-> res.computed + 1]
            ELSE [returned |-> st, cache |-> st,
                  computed |-> res.computed + 1]

\* the scores of compute_utility, in thousandths
ConservativeScore(st) ==
    LET m == Max(st.mean_time, 1000)
    IN (100 - st.dnf_probability) * 6
       + (400 * (m \div 100)) \div ((m + st.std_time) \div 100)

AggressiveScore(st) == st.win_probability * 7 + st.podium_probability * 3

\* SimulationResults.compute_utility: the value returned, or the KeyError
\* raised when the dict has no 'std_time'
ComputeUtilityOf(res, risk_tolerance) ==
    LET got == GetStatisticsOf(res)
        st == got.returned
    IN IF "std_time" \notin st.keys
       THEN [raised |-> TRUE, value |-> 0, cache |-> got.cache,
             computed |-> got.computed]
       ELSE [raised |-> FALSE,
             value |-> ((100 - risk_tolerance) * ConservativeScore(st)
                        + risk_tolerance * AggressiveScore(st)) \div 100,
             cache |-> got.cache, computed |-> got.computed]

-----------------------------------------------------------------------------
(* Spec: one evaluation.  A simulator is built from a configuration, a     *)
(* strategy is constructed and evaluated on it, and statistics and the     *)
(* utility are read from the results.  history is the log of the           *)
(* simulate_strategy calls; an entry with status "ok" is the               *)
(* SimulationResults object the call returned, together with the locals    *)
(* the call drew (kept for the properties).                                *)

\* scenarios of Spec: main()'s car, a refueling race with a fragile car,
\* a race no run can finish, and a race whose safety-car laps are driven
\* in the base lap time
MainScenario(rev, name, seed) ==
    LET d == [DefaultConfig(rev) EXCEPT !.random_seed = seed]
    IN CASE name = "default" -> [d EXCEPT !.fuel_start = 105000]
         [] name = "refuel" ->
              [d EXCEPT !.refueling_allowed = TRUE, !.component_risk = 9000,
                        !.base_puncture_prob = 2]
         [] name = "doomed" ->
              [d EXCEPT !.fuel_usage = ThirstyFuelUsage(rev),
                        !.base_puncture_prob = 100]
         [] name = "level" ->
              [d EXCEPT !.safety_car_lap_time_factor = 100]

MainConfigs ==
    {MainScenario(rev, name, seed) :
        rev \in Revisions,
        name \in {"default", "refuel", "doomed", "level"},
        seed \in {42, 7}}

\* Strategy arguments tried by Spec (race_laps is 44)
MainStrategyArgs ==
    {[pit_laps |-> <<22>>, tire_compounds |-> <<"soft", "hard">>,
      starting_fuel |-> 107000, engine_modes |-> {}],
     [pit_laps |-> <<>>, tire_compounds |-> <<"medium">>,
      starting_fuel |-> 105000, engine_modes |-> {}],
     [pit_laps |-> <<30, 20>>, tire_compounds |-> <<"soft", "medium", "hard">>,
      starting_fuel |-> 105000, engine_modes |-> {}],
     [pit_laps |-> <<44>>, tire_compounds |-> <<"medium", "hard">>,
      starting_fuel |-> 105000, engine_modes |-> {}],
     [pit_laps |-> <<22>>, tire_compounds |-> <<"soft">>,
      starting_fuel |-> 105000, engine_modes |-> {}],
     [pit_laps |-> <<14>>, tire_compounds |-> <<"medium", "hard">>,
      starting_fuel |-> 120000, engine_modes |-> {}],
     [pit_laps |-> <<14>>, tire_compounds |-> <<"medium", "soft">>,
      starting_fuel |-> 105000, engine_modes |-> {<<PUSH>>}]}

RiskTolerances == {0, 50, 100}

\* dicts one results object is let build (it builds one per call as long
\* as its cache stays empty)
MaxComputed == 2

\* variant: one generator shared by the instances, seeded once
InstanceRngShared(c, leftover) == leftover

\* self.rng of a new RaceSimulator; leftover is the state the generator of
\* the previous instance was left in, which the constructor never reads
InstanceRng(c, leftover) == RandomState(c.random_seed)

\* RaceSimulator.__init__
NewSimulator(c, inst, leftover) ==
    LET f == CompetitorField(c, InstanceRng(c, leftover))
    IN [inst |-> inst, ok |-> f.ok, rng |-> f.rng,
        competitor_base_pace |-> f.competitor_base_pace,
        competitor_strategies |-> f.competitor_strategies]

\* the strategies of the earlier calls on instance inst
PriorCalls(h, inst) ==
    LET idx == {i \in DOMAIN h : h[i].inst = inst}
    IN [k \in 1..Cardinality(idx) |->
          h[CHOOSE i \in idx : Cardinality({j \in idx : j <= i}) = k].strategy]

\* what compute_utility gave, when it was called on a results object
NoUtility ==
    [called |-> FALSE, raised |-> FALSE, value |-> 0, risk_tolerance |-> 0]

\* a history entry for a call that raised
FailedCall(inst, prior, s, status) ==
    [inst |-> inst, prior |-> prior, strategy |-> s, status |-> status,
     lap_times |-> <<>>, tire_wear |-> <<>>, fuel_level |-> <<>>,
     total_times |-> <<>>, positions |-> <<>>, dnf_flags |-> <<>>,
     competitor_times |-> <<>>, wear_multipliers |-> <<>>,
     fuel_multipliers |-> <<>>, lap_noise |-> <<>>, safety_cars |-> <<>>,
     rng_entry |-> 0, rng_loop |-> 0, stats |-> NoStats,
     last_stats |-> NoStats,
     computed |-> 0, utility |-> NoUtility]

\* lines 589-602: the arrays drawn at the head of simulate_strategy; comp
\* is what _simulate_competitor_field_stochastic gave after them
DrawnArrays(c, rng, comp) ==
    LET N == c.num_runs
        L == c.race_laps
    IN [call |->
          [IdleCall EXCEPT
             !.wear_multipliers =
                 [i \in 1..N |-> WearMultiplierOf(c, RngU(rng, i))],
             !.fuel_multipliers =
                 [i \in 1..N |-> FuelMultiplierOf(c, RngU(rng, N + i))],
             !.lap_noise =
                 [i \in 1..N |-> [l \in 1..L |->
                     LapNoiseOf(c, RngU(rng, 2*N + (i - 1)*L + l))]],
             !.safety_cars =
                 [i \in 1..N |-> [l \in 1..L |->
                     RngU(rng, 2*N + N*L + (i - 1)*L + l)
                         <= c.safety_car_prob]],
             !.competitor_times = comp.times,
             !.lap_times = [i \in 1..N |-> Zeros(L)],
             !.tire_wear = [i \in 1..N |-> Zeros(L)],
             !.fuel_level = [i \in 1..N |-> Zeros(L)],
             !.total_times = Zeros(N),
             !.dnf_flags = [i \in 1..N |-> FALSE],
             !.rng_entry = rng,
             !.rng_loop = comp.rng],
        rng |-> comp.rng]

DrawCall(c, field, rng) ==
    DrawnArrays(c, rng,
        SimulateCompetitorFieldStochastic(c, field,
            RngAdvance(rng, 2 * c.num_runs + 2 * c.num_runs * c.race_laps)))

\* lines 613-616: the SimulationResults a completed call returns
ResultsOf(c, inst, prior, s, cl) ==
    [FailedCall(inst, prior, s, "ok") EXCEPT
        !.lap_times = cl.lap_times, !.tire_wear = cl.tire_wear,
        !.fuel_level = cl.fuel_level, !.total_times = cl.total_times,
        !.positions = ComputePositionsStochastic(c, cl.total_times,
                                                 cl.dnf_flags,
                                                 cl.competitor_times),
        !.dnf_flags = cl.dnf_flags,
        !.competitor_times = cl.competitor_times,
        !.wear_multipliers = cl.wear_multipliers,
        !.fuel_multipliers = cl.fuel_multipliers,
        !.lap_noise = cl.lap_noise, !.safety_cars = cl.safety_cars,
        !.rng_entry = cl.rng_entry, !.rng_loop = cl.rng_loop]

\* the run loop of simulate_strategy (lines 604-611) from run cl.run_idx
\* on, the generator in state rng; raised tells that a run raised, rng is
\* the generator state the loop leaves behind
RECURSIVE RunAll(_, _, _, _)
RunAll(c, s, cl, rng) ==
    IF cl.run_idx >= c.num_runs
    THEN [call |-> cl, raised |-> FALSE, rng |-> rng]
    ELSE LET i == cl.run_idx + 1
             rs == SimulateSingleRun(c, s, rng, cl.wear_multipliers[i],
                                     cl.fuel_multipliers[i], cl.lap_noise[i],
                                     cl.safety_cars[i])
         IN IF rs.status = "raised"
            THEN [call |-> cl, raised |-> TRUE, rng |-> rs.rng]
            ELSE RunAll(c, s, StoreRun(cl, RunResult(rs)), rs.rng)

\* simulate_strategy as a whole, for a strategy that passes the entry
\* check: the locals after the run loop
SimulateStrategyCall(c, field, s, rng) ==
    LET d == DrawCall(c, field, rng)
    IN RunAll(c, s, d.call, d.rng)

Init ==
    /\ cfg \in MainConfigs
    /\ sim = [NoSim EXCEPT !.ok = FALSE]
    /\ strategy = NoStrategy
    /\ call = IdleCall
    /\ run = IdleRun
    /\ history = <<>>
    /\ opt = IdleOpt
    /\ pc = "new"
    /\ server = NoServer
    /\ dss = NewDecisionSystem

\* RaceSimulator(race_conditions, car_setup, sim_config)
Construct ==
    /\ pc = "new"
    /\ sim' = NewSimulator(cfg, sim.inst, sim.rng)
    /\ pc' = IF sim'.ok THEN "ready" ELSE "ctor_raised"
    /\ UNCHANGED <<cfg, strategy, call, run, history, opt, server, dss>>

\* Strategy(name, pit_laps, tire_compounds, [starting_fuel,] engine_modes)
ConstructStrategy ==
    /\ pc \in {"ready", "strategy_raised"}
    /\ history = <<>>
    /\ \E a \in MainStrategyArgs : strategy' = StrategyPostInit(cfg.rev, a)
    /\ pc' = IF strategy'.ok THEN "have_strategy" ELSE "strategy_raised"
    /\ UNCHANGED <<cfg, sim, call, run, history, opt, server, dss>>

\* variant: the competitor field generated anew at every call
EnterRunsFreshField(d) ==
    /\ call' = d.call
    /\ sim' = LET f == CompetitorField(cfg, d.rng)
              IN [sim EXCEPT
                    !.rng = d.rng,
                    !.competitor_base_pace = f.competitor_base_pace,
                    !.competitor_strategies = f.competitor_strategies]

\* the locals and the generator as the run loop finds them
EnterRuns(d) ==
    /\ call' = d.call
    /\ sim' = [sim EXCEPT !.rng = d.rng]

\* variant: the arrays are drawn before the rule check rejects the strategy
SimulateStrategyDrawsFirst ==
    /\ pc = "have_strategy"
    /\ IF RuleViolation(cfg, strategy)
       THEN /\ history' = Append(history,
                   FailedCall(sim.inst, PriorCalls(history, sim.inst),
                              strategy, "rejected"))
            /\ pc' = "ready"
            /\ sim' = [sim EXCEPT !.rng = DrawCall(cfg, sim, sim.rng).rng]
            /\ UNCHANGED call
       ELSE /\ EnterRuns(DrawCall(cfg, sim, sim.rng))
            /\ pc' = "runs"
            /\ UNCHANGED history
    /\ run' = IdleRun
    /\ UNCHANGED <<cfg, strategy, opt, server, dss>>

\* simulate_strategy up to the run loop: the rule check, the draws, the
\* competitor field
SimulateStrategy ==
    /\ pc = "have_strategy"
    /\ IF RuleViolation(cfg, strategy)
       THEN /\ history' = Append(history,
                   FailedCall(sim.inst, PriorCalls(history, sim.inst),
                              strategy, "rejected"))
            /\ pc' = "ready"
            /\ UNCHANGED <<sim, call>>
       ELSE /\ EnterRuns(DrawCall(cfg, sim, sim.rng))
            /\ pc' = "runs"
            /\ UNCHANGED history
    /\ run' = IdleRun
    /\ UNCHANGED <<cfg, strategy, opt, server, dss>>

\* what the run loop does with the outcome rs of _simulate_single_run:
\* lines 607-611, or the IndexError ends the call
AfterRun(rs) ==
    /\ run' = rs
    /\ sim' = [sim EXCEPT !.rng = rs.rng]
    /\ IF rs.status = "raised"
       THEN /\ history' = Append(history,
                   FailedCall(sim.inst, PriorCalls(history, sim.inst),
                              strategy, "raised"))
            /\ call' = IdleCall
            /\ pc' = "ready"
       ELSE /\ call' = StoreRun(call, RunResult(rs))
            /\ UNCHANGED <<history, pc>>

\* one iteration of the run loop
SingleRun ==
    /\ pc = "runs"
    /\ call.run_idx < cfg.num_runs
    /\ AfterRun(SimulateSingleRun(cfg, strategy, sim.rng,
                                  call.wear_multipliers[call.run_idx + 1],
                                  call.fuel_multipliers[call.run_idx + 1],
                                  call.lap_noise[call.run_idx + 1],
                                  call.safety_cars[call.run_idx + 1]))
    /\ UNCHANGED <<cfg, strategy, opt, server, dss>>

\* the positions are computed and the SimulationResults returned
Finish ==
    /\ pc = "runs"
    /\ call.run_idx = cfg.num_runs
    /\ history' = Append(history,
           ResultsOf(cfg, sim.inst, PriorCalls(history, sim.inst), strategy,
                     call))
    /\ call' = IdleCall
    /\ pc' = "ready"
    /\ UNCHANGED <<cfg, sim, strategy, run, opt, server, dss>>

\* results.get_statistics() on the results object returned last
GetStatistics ==
    /\ pc = "ready"
    /\ \E k \in {Len(history)} \ {0} :
          /\ history[k].status = "ok"
          /\ history[k].computed < MaxComputed
          /\ LET got == GetStatisticsOf(history[k])
             IN history' = [history EXCEPT ![k].stats = got.cache,
                                           ![k].last_stats = got.returned,
                                           ![k].computed = got.computed]
    /\ UNCHANGED <<cfg, sim, strategy, call, run, pc, opt, server, dss>>

\* results.compute_utility(risk_tolerance) on the results object returned
\* last
ComputeUtility ==
    /\ pc = "ready"
    /\ \E k \in {Len(history)} \ {0}, risk_tolerance \in RiskTolerances :
          /\ history[k].status = "ok"
          /\ history[k].computed < MaxComputed
          /\ LET u == ComputeUtilityOf(history[k], risk_tolerance)
             IN history' =
                  [history EXCEPT
                     ![k].stats = u.cache,
                     ![k].computed = u.computed,
                     ![k].utility = [called |-> TRUE, raised |-> u.raised,
                                     value |-> u.value,
                                     risk_tolerance |-> risk_tolerance]]
    /\ UNCHANGED <<cfg, sim, strategy, call, run, pc, opt, server, dss>>

Next ==
    \/ Construct
    \/ ConstructStrategy
    \/ SimulateStrategy
    \/ SingleRun
    \/ Finish
    \/ GetStatistics
    \/ ComputeUtility

Spec == Init /\ [][Next]_vars

-----------------------------------------------------------------------------
(* SpecRepeat: repeated evaluations.  Candidates of the optimizer are      *)
(* evaluated one after another on a simulator, and the program may drop    *)
(* the simulator and build another from the same configuration.            *)

MaxInstances == 2

\* two of the candidates generate_strategies builds for a 44-lap race
CandidateArgs ==
    {[pit_laps |-> <<22>>, tire_compounds |-> <<"soft", "hard">>,
      starting_fuel |-> 107000, engine_modes |-> {}],
     [pit_laps |-> <<14>>, tire_compounds |-> <<"medium", "hard">>,
      starting_fuel |-> 105000, engine_modes |-> {}]}

\* Strategy(...) as generate_strategies calls it
ConstructCandidate ==
    /\ pc = "ready"
    /\ Len(history) < MaxCalls
    /\ \E a \in CandidateArgs : strategy' = StrategyPostInit(cfg.rev, a)
    /\ pc' = IF strategy'.ok THEN "have_strategy" ELSE "strategy_raised"
    /\ UNCHANGED <<cfg, sim, call, run, history, opt, server, dss>>

\* the program drops the simulator and builds another from the same
\* configuration
NewInstance ==
    /\ pc = "ready"
    /\ sim.inst < MaxInstances
    /\ sim' = [sim EXCEPT !.inst = sim.inst + 1, !.ok = FALSE]
    /\ pc' = "new"
    /\ UNCHANGED <<cfg, strategy, call, run, history, opt, server, dss>>

RepeatNext ==
    \/ Construct
    \/ ConstructCandidate
    \/ SimulateStrategy
    \/ SingleRun
    \/ Finish
    \/ NewInstance

SpecRepeat == Init /\ [][RepeatNext]_vars

-----------------------------------------------------------------------------
(* SpecBatch: StrategyOptimizer.  evaluate_all is given a list of          *)
(* strategies and walks it, calling simulate_strategy and compute_utility  *)
(* on every entry inside a try block; the list is the head of what         *)
(* generate_strategies builds, or a list the caller put together.          *)

MaxBatch == 3       \* strategies in the list given to evaluate_all

\* the ordered compound pairs of generate_strategies (start # end)
CompoundPairs ==
    << <<"soft", "medium">>, <<"soft", "hard">>, <<"medium", "soft">>,
       <<"medium", "hard">>, <<"hard", "soft">>, <<"hard", "medium">> >>

\* the compound triples of the 2-stop candidates (apps revision)
CompoundTriples ==
    << <<"soft", "medium", "hard">>, <<"medium", "soft", "medium">>,
       <<"soft", "soft", "medium">> >>

\* fuel_options of generate_strategies, in grams
FuelOptions == <<105000, 107000>>

\* the 1-stop candidates, in the order of the nested loops
OneStopCandidates(c) ==
    LET N == c.race_laps
        pits == <<N \div 3, N \div 2, (2 * N) \div 3>>
    IN IF c.rev = "backend"
       THEN [k \in 1..36 |->
               StrategyPostInit(c.rev,
                 [pit_laps |-> <<pits[(k - 1) \div 12 + 1]>>,
                  tire_compounds |-> CompoundPairs[((k - 1) % 12) \div 2 + 1],
                  starting_fuel |-> FuelOptions[((k - 1) % 2) + 1],
                  engine_modes |-> {}])]
       ELSE [k \in 1..18 |->
               StrategyPostInit(c.rev,
                 [pit_laps |-> <<pits[(k - 1) \div 6 + 1]>>,
                  tire_compounds |-> CompoundPairs[((k - 1) % 6) + 1],
                  starting_fuel |-> 0,
                  engine_modes |-> {}])]

\* the 2-stop candidates of the apps revision
TwoStopCandidates(c) ==
    LET N == c.race_laps
        first == <<N \div 4, N \div 3>>
        second == <<N \div 2, (2 * N) \div 3>>
    IN IF c.rev = "backend" THEN <<>>
       ELSE [k \in 1..12 |->
               StrategyPostInit(c.rev,
                 [pit_laps |-> <<first[(k - 1) \div 6 + 1],
                                 second[((k - 1) % 6) \div 3 + 1]>>,
                  tire_compounds |-> CompoundTriples[((k - 1) % 3) + 1],
                  starting_fuel |-> 0,
                  engine_modes |-> {}])]

\* StrategyOptimizer.generate_strategies (the backend returns the first 20)
GenerateStrategies(c) ==
    LET every == OneStopCandidates(c) \o TwoStopCandidates(c)
    IN IF c.rev = "backend" THEN SubSeq(every, 1, 20) ELSE every

\* strategies a caller may put in a list of its own: two that
\* generate_strategies would build, one with a single compound and one
\* with an engine mode list shorter than its stints
HandStrategies(c) ==
    {StrategyPostInit(c.rev, a) : a \in CandidateArgs} \cup
    {StrategyPostInit(c.rev,
        [pit_laps |-> <<>>, tire_compounds |-> <<"medium">>,
         starting_fuel |-> 105000, engine_modes |-> {}]),
     StrategyPostInit(c.rev,
        [pit_laps |-> <<14>>, tire_compounds |-> <<"medium", "soft">>,
         starting_fuel |-> 105000, engine_modes |-> {<<PUSH>>}])}

\* the lists given to evaluate_all: the head of generate_strategies, as
\* main() passes it, and the lists of distinct hand-built strategies
GeneratedBatch(c) == SubSeq(GenerateStrategies(c), 1, MaxBatch)

HandBatches(c) ==
    LET n == Min(MaxBatch, Cardinality(HandStrategies(c)))
    IN {b \in [1..n -> HandStrategies(c)] :
           \A i, j \in 1..n : i # j => b[i] # b[j]}

\* scenarios of SpecBatch: main()'s race, a refueling race with a fragile
\* car, a race of 80 laps, and a race on which 105 kg of fuel do not last
BatchScenario(rev, name) ==
    CASE name \in {"default", "refuel"} -> MainScenario(rev, name, 42)
      [] name = "marathon" ->
           [MainScenario(rev, "default", 42) EXCEPT !.race_laps = 80]
      [] name = "thirsty" ->
           [MainScenario(rev, "default", 42) EXCEPT
               !.fuel_usage = IF rev = "backend" THEN 6000 ELSE 100,
               !.fuel_burn_noise_std = 0,
               !.base_puncture_prob = IF rev = "backend" THEN 0 ELSE 2]

BatchConfigs ==
    {BatchScenario(rev, name) :
        rev \in Revisions,
        name \in {"default", "refuel", "marathon", "thirsty"}}

BatchInit ==
    /\ cfg \in BatchConfigs
    /\ sim = [NoSim EXCEPT !.ok = FALSE]
    /\ strategy = NoStrategy
    /\ call = IdleCall
    /\ run = IdleRun
    /\ history = <<>>
    /\ opt = IdleOpt
    /\ pc = "new"
    /\ server = NoServer
    /\ dss = NewDecisionSystem

\* optimizer.evaluate_all(strategies, risk_tolerance): line 906
EvaluateAll ==
    /\ pc = "ready"
    /\ opt.status = "idle"
    /\ \E generated \in BOOLEAN :
       \E batch \in IF generated THEN {GeneratedBatch(cfg)}
                    ELSE HandBatches(cfg) :
          opt' = [IdleOpt EXCEPT !.status = "loop", !.strategies = batch,
                                 !.generated = generated]
    /\ UNCHANGED <<cfg, sim, strategy, call, run, history, pc, server, dss>>

\* the head of a loop iteration: the next strategy goes to
\* simulate_strategy (line 910)
NextCandidate ==
    /\ pc = "ready"
    /\ opt.status = "loop"
    /\ opt.i < Len(opt.strategies)
    /\ Len(history) = opt.i
    /\ strategy' = opt.strategies[opt.i + 1]
    /\ pc' = "have_strategy"
    /\ UNCHANGED <<cfg, sim, call, run, history, opt, server, dss>>

\* the rest of the try block (lines 911-915): compute_utility on the
\* results and the append, or the except branch that skips the strategy
\* when simulate_strategy or compute_utility raised
Collect ==
    /\ pc = "ready"
    /\ opt.status = "loop"
    /\ Len(history) = opt.i + 1
    /\ LET k == opt.i + 1
           u == ComputeUtilityOf(history[k], opt.risk_tolerance)
       IN IF history[k].status # "ok"
          THEN /\ opt' = [opt EXCEPT !.i = k]
               /\ UNCHANGED history
          ELSE /\ history' =
                    [history EXCEPT
                       ![k].stats = u.cache,
                       ![k].computed = u.computed,
                       ![k].utility =
                           [called |-> TRUE, raised |-> u.raised,
                            value |-> u.value,
                            risk_tolerance |-> opt.risk_tolerance]]
               /\ opt' = [opt EXCEPT
                            !.i = k,
                            !.results =
                               IF u.raised THEN opt.results
                               ELSE Append(opt.results,
                                      [strategy |-> history[k].strategy,
                                       sim_results |-> k,
                                       utility |-> u.value])]
    /\ UNCHANGED <<cfg, sim, strategy, call, run, pc, server, dss>>

\* results.sort(key=lambda x: x[2], reverse=True): descending by utility,
\* equal utilities keeping their order
SortByUtility(results) ==
    LET n == Len(results)
        place(j) == 1 + Cardinality({k \in 1..n :
                           \/ results[k].utility > results[j].utility
                           \/ (results[k].utility = results[j].utility
                               /\ k < j)})
    IN [p \in 1..n |-> results[CHOOSE j \in 1..n : place(j) = p]]

\* results printed after the sort: 5 in the backend, 10 in the apps revision
TopPrinted(c) == IF c.rev = "backend" THEN 5 ELSE 10

\* lines 916-924: the sort, the table of the best results (which reads
\* 'mean_position' from get_statistics of each), the return
ReturnRanked ==
    /\ pc = "ready"
    /\ opt.status = "loop"
    /\ opt.i = Len(opt.strategies)
    /\ Len(history) = opt.i
    /\ LET ranked == SortByUtility(opt.results)
           top == SubSeq(ranked, 1, Min(TopPrinted(cfg), Len(ranked)))
           missing ==
               \E t \in DOMAIN top :
                   "mean_position" \notin
                       GetStatisticsOf(history[top[t].sim_results])
                           .returned.keys
       IN opt' = [opt EXCEPT !.results = ranked,
                             !.status = IF missing THEN "raised"
                                        ELSE "returned"]
    /\ pc' = "done"
    /\ UNCHANGED <<cfg, sim, strategy, call, run, history, server, dss>>

BatchNext ==
    \/ Construct
    \/ EvaluateAll
    \/ NextCandidate
    \/ SimulateStrategy
    \/ SingleRun
    \/ Finish
    \/ Collect
    \/ ReturnRanked

SpecBatch == BatchInit /\ [][BatchNext]_vars

-----------------------------------------------------------------------------
(* SpecField: the construction of a RaceSimulator, and with it of its      *)
(* CompetitorField, over race lengths, field sizes and seeds.              *)

FieldRaceLaps == {20, 30, 44, 58}
FieldSizes == {5, 6, 15, 19}
FieldSeeds == {42, 7}

FieldConfigs ==
    {[DefaultConfig(rev) EXCEPT !.race_laps = laps, !.num_competitors = n,
                                !.random_seed = seed] :
        rev \in Revisions, laps \in FieldRaceLaps, n \in FieldSizes,
        seed \in FieldSeeds}

FieldInit ==
    /\ cfg \in FieldConfigs
    /\ sim = [NoSim EXCEPT !.ok = FALSE]
    /\ strategy = NoStrategy
    /\ call = IdleCall
    /\ run = IdleRun
    /\ history = <<>>
    /\ opt = IdleOpt
    /\ pc = "new"
    /\ server = NoServer
    /\ dss = NewDecisionSystem

FieldNext == Construct

SpecField == FieldInit /\ [][FieldNext]_vars

-----------------------------------------------------------------------------
(* SpecPos: _compute_positions_stochastic on ensembles drawn from bounded  *)
(* sets: the player finishes in PosOurTime or retires, a competitor        *)
(* finishes just before, level with or just after the player, or retires.  *)

PosCompetitors == 3

PosOurTime == DefaultConfig("backend").race_laps
                  * DefaultConfig("backend").base_lap_time

PosCompetitorTimes == {PosOurTime - 1, PosOurTime, PosOurTime + 1, DnfTime}

\* rows of competitor times: every row for the first run, uniform rows for
\* the later ones
PosRows(c, run_idx) ==
    IF run_idx = 1
    THEN [1..c.num_competitors -> PosCompetitorTimes]
    ELSE {[k \in 1..c.num_competitors |-> t] :
             t \in {PosOurTime - 1, PosOurTime + 1, DnfTime}}

PosInit ==
    /\ cfg \in {[DefaultConfig(rev) EXCEPT !.num_competitors = PosCompetitors]
                   : rev \in Revisions}
    /\ \E dnf \in [1..cfg.num_runs -> BOOLEAN] :
       \E first \in PosRows(cfg, 1) :
       \E rest \in [2..cfg.num_runs -> PosRows(cfg, 2)] :
          /\ call = [IdleCall EXCEPT
                       !.run_idx = cfg.num_runs,
                       !.total_times = [i \in 1..cfg.num_runs |->
                                          IF dnf[i] THEN DnfTime
                                          ELSE PosOurTime],
                       !.dnf_flags = dnf,
                       !.competitor_times =
                           [i \in 1..cfg.num_runs |->
                              IF i = 1 THEN first ELSE rest[i]]]
    /\ sim = NoSim
    /\ strategy = NoStrategy
    /\ run = IdleRun
    /\ history = <<>>
    /\ opt = IdleOpt
    /\ pc = "positions"
    /\ server = NoServer
    /\ dss = NewDecisionSystem

\* line 613 onwards: the positions of the ensemble
ComputePositions ==
    /\ pc = "positions"
    /\ history' = <<ResultsOf(cfg, sim.inst, <<>>, strategy, call)>>
    /\ pc' = "positions_done"
    /\ UNCHANGED <<cfg, sim, strategy, call, run, opt, server, dss>>

PosNext == ComputePositions

SpecPos == PosInit /\ [][PosNext]_vars

-----------------------------------------------------------------------------
(* SpecBroadcast: api/server.py.  One event loop runs the WebSocket        *)
(* handlers and broadcast_update; a coroutine gives way only at an await,  *)
(* so every action below is the code between two awaits.                   *)

\* list.remove(x): drops the first occurrence of x; ok is FALSE when x is
\* not in the list and Python raises ValueError
ListRemove(list, x) ==
    IF \E i \in 1..Len(list) : list[i] = x
    THEN LET k == CHOOSE i \in 1..Len(list) :
                      list[i] = x /\ \A j \in 1..(i - 1) : list[j] # x
         IN  [ok |-> TRUE,
              list |-> [i \in 1..(Len(list) - 1) |->
                          IF i < k THEN list[i] ELSE list[i + 1]]]
    ELSE [ok |-> FALSE, list |-> list]

\* for conn in disconnected: active_connections.remove(conn)
RECURSIVE RemoveDisconnected(_, _)
RemoveDisconnected(active, disconnected) ==
    IF disconnected = <<>>
    THEN [ok |-> TRUE, list |-> active]
    ELSE LET r == ListRemove(active, Head(disconnected))
         IN  IF r.ok
             THEN RemoveDisconnected(r.list, Tail(disconnected))
             ELSE r

\* for connection in active_connections: the list iterator reads the live
\* list at its own index; when it is exhausted the removal loop runs and
\* broadcast_update returns, or raises the ValueError of list.remove
NextConnection(sv) ==
    IF sv.it < Len(sv.active_connections)
    THEN [sv EXCEPT !.connection = sv.active_connections[sv.it + 1],
                    !.it = sv.it + 1,
                    !.broadcast = "sending"]
    ELSE LET r == RemoveDisconnected(sv.active_connections, sv.disconnected)
         IN  [sv EXCEPT !.active_connections = r.list,
                        !.broadcast = IF r.ok THEN "returned" ELSE "raised"]

\* websocket_endpoint up to its first receive_text: accept, then append
WebsocketConnect ==
    /\ pc = "serving"
    /\ \E w \in Connections :
          /\ server.client[w] = "absent"
          /\ server' = [server EXCEPT
                          !.client[w] = "open",
                          !.active_connections = Append(@, w)]
    /\ UNCHANGED <<cfg, sim, strategy, call, run, history, opt, pc, dss>>

\* the peer of an open socket goes away; its handler is not scheduled yet
ClientCloses ==
    /\ pc = "serving"
    /\ \E w \in Connections :
          /\ server.client[w] = "open"
          /\ server' = [server EXCEPT !.client[w] = "closed"]
    /\ UNCHANGED <<cfg, sim, strategy, call, run, history, opt, pc, dss>>

\* websocket_endpoint: receive_text raises WebSocketDisconnect and the
\* handler removes its socket from active_connections
WebsocketDisconnect ==
    /\ pc = "serving"
    /\ \E w \in Connections :
          /\ server.client[w] = "closed"
          /\ LET r == ListRemove(server.active_connections, w)
             IN  server' = [server EXCEPT
                              !.client[w] = IF r.ok THEN "removed"
                                            ELSE "handler_raised",
                              !.active_connections = r.list]
    /\ UNCHANGED <<cfg, sim, strategy, call, run, history, opt, pc, dss>>

\* get_strategy_recommendation reaches await broadcast_update(...):
\* disconnected = [], the loop takes its first connection and waits in
\* send_text (or finds the list empty and returns)
BroadcastUpdate ==
    /\ pc = "serving"
    /\ server.broadcast = "idle"
    /\ server' = NextConnection(
                    [server EXCEPT
                       !.disconnected = <<>>,
                       !.it = 0,
                       !.at_start = {server.active_connections[i] :
                                       i \in 1..Len(server.active_connections)}])
    /\ UNCHANGED <<cfg, sim, strategy, call, run, history, opt, pc, dss>>

\* await connection.send_text(...) completes: the message is delivered to
\* an open socket, a socket whose peer has gone raises and is appended to
\* disconnected; the loop then goes on to its next connection
SendText ==
    /\ pc = "serving"
    /\ server.broadcast = "sending"
    /\ LET w == server.connection
       IN  server' = NextConnection(
                        IF server.client[w] = "open"
                        THEN [server EXCEPT !.sent[w] = @ + 1]
                        ELSE [server EXCEPT
                                !.disconnected = Append(@, w)])
    /\ UNCHANGED <<cfg, sim, strategy, call, run, history, opt, pc, dss>>

BroadcastInit ==
    /\ cfg = DefaultConfig("backend")
    /\ sim = NoSim
    /\ strategy = NoStrategy
    /\ call = IdleCall
    /\ run = IdleRun
    /\ history = <<>>
    /\ opt = IdleOpt
    /\ pc = "serving"
    /\ server = NoServer
    /\ dss = NewDecisionSystem

BroadcastNext ==
    \/ WebsocketConnect
    \/ ClientCloses
    \/ WebsocketDisconnect
    \/ BroadcastUpdate
    \/ SendText

SpecBroadcast == BroadcastInit /\ [][BroadcastNext]_vars

-----------------------------------------------------------------------------
(* SpecDecision: simulation/decision_system.py, the instance api/app.py    *)
(* creates with DecisionSupportSystem().  Fuel is in grams, gaps are in    *)
(* milliseconds; the rationale texts are left out, the attribute reads of  *)
(* their f-strings are not.                                                *)

\* RaceContext values of the model: mid-race and last lap, fresh, used and
\* critical tires, a nearly empty and a comfortable tank, no car ahead, a
\* car within a second and one further away
RaceContexts ==
    [current_lap : {25, 60},
     total_laps : {60},
     tire_age : {3, 12, 30},
     fuel_remaining : {5000, 55000},
     gap_to_next : {0, 500, 2500}]

\* simulation_results with one entry in 'results': its tire_states are
\* absent, or hold a tire change on lap 25, or none
SimulationResults ==
    {[results |-> <<[tire_states |-> ts]>>] :
        ts \in {<<>>,
                <<[lap |-> 24, age |-> 11], [lap |-> 25, age |-> 0]>>,
                <<[lap |-> 24, age |-> 11], [lap |-> 25, age |-> 12]>>}}

ShouldPitNow(context, simulation_results) ==
    IF context.tire_age > 25
    THEN TRUE
    ELSE LET results == simulation_results.results[1]
         IN  \E i \in 1..Len(results.tire_states) :
                /\ results.tire_states[i].lap = context.current_lap
                /\ results.tire_states[i].age = 0

\* fuel_per_lap_needed < 1.3, the quotient taken as 0 on the last lap
ShouldSaveFuel(context) ==
    LET laps_remaining == context.total_laps - context.current_lap
    IN  IF laps_remaining > 0
        THEN context.fuel_remaining < 1300 * laps_remaining
        ELSE TRUE

ShouldPush(context) ==
    \/ 0 < context.gap_to_next /\ context.gap_to_next < 1000
    \/ context.tire_age < 5

SelectTireCompound(context) ==
    LET laps_remaining == context.total_laps - context.current_lap
    IN  IF laps_remaining < 15 THEN "soft"
        ELSE IF laps_remaining > 30 THEN "hard"
        ELSE "medium"

\* 'PIT NOW' + f" - {best_compound.upper()} TIRES"
PitAction(best_compound) ==
    CASE best_compound = "soft" -> "PIT NOW - SOFT TIRES"
      [] best_compound = "medium" -> "PIT NOW - MEDIUM TIRES"
      [] best_compound = "hard" -> "PIT NOW - HARD TIRES"

\* make_realtime_decision on instance d: the fuel branch formats
\* self.config.total_laps, an attribute the instance does not have, and
\* raises AttributeError before anything is appended
MakeRealtimeDecisionOf(d, race_context, simulation_results) ==
    LET decision(action, urgency) ==
            [timestamp |-> race_context.current_lap,
             recommended_action |-> action,
             urgency |-> urgency,
             context |-> [lap |-> race_context.current_lap,
                          tire_age |-> race_context.tire_age,
                          fuel |-> race_context.fuel_remaining]]
        returned(e) ==
            [d EXCEPT !.decision_history = Append(@, e),
                      !.last = "returned"]
    IN  IF ShouldPitNow(race_context, simulation_results)
        THEN returned(decision(PitAction(SelectTireCompound(race_context)),
                               "high"))
        ELSE IF ShouldSaveFuel(race_context)
        THEN [d EXCEPT !.last = "AttributeError"]
        ELSE IF ShouldPush(race_context)
        THEN returned(decision("PUSH FOR POSITION", "medium"))
        ELSE returned(decision("MAINTAIN PACE", "low"))

\* api/app.py's endpoint calls decision_system.make_realtime_decision
MakeRealtimeDecision ==
    /\ pc = "deciding"
    /\ dss.calls < MaxDecisions
    /\ \E race_context \in RaceContexts,
          simulation_results \in SimulationResults :
          dss' = MakeRealtimeDecisionOf(
                    [dss EXCEPT !.calls = @ + 1,
                                !.asked = <<race_context,
                                            simulation_results>>],
                    race_context, simulation_results)
    /\ UNCHANGED <<cfg, sim, strategy, call, run, history, opt, pc, server>>

DecisionInit ==
    /\ cfg = DefaultConfig("backend")
    /\ sim = NoSim
    /\ strategy = NoStrategy
    /\ call = IdleCall
    /\ run = IdleRun
    /\ history = <<>>
    /\ opt = IdleOpt
    /\ pc = "deciding"
    /\ server = NoServer
    /\ dss = NewDecisionSystem

DecisionNext == MakeRealtimeDecision

SpecDecision == DecisionInit /\ [][DecisionNext]_vars

-----------------------------------------------------------------------------
(* Properties *)

\* C1: for every run index i, positions[i] is 1 + the number of competitors
\* whose run-i time is below the DNF threshold when the player retired in
\* run i, and otherwise 1 + the number of competitors whose run-i time is
\* strictly less than the player's run-i time; an equal time does not
\* count and the rows of the other runs play no part.
C1_PositionIsOnePlusFaster ==
    pc = "positions_done" =>
        \A i \in 1..cfg.num_runs :
            LET row == call.competitor_times[i]
                ahead == {k \in 1..cfg.num_competitors :
                             IF call.dnf_flags[i] THEN row[k] < DnfThreshold
                             ELSE row[k] < call.total_times[i]}
            IN history[1].positions[i] = 1 + Cardinality(ahead)

\* a computed ensemble in which a competitor ties with the player in the
\* first run while another competitor beats them, and the player retires
\* in a later run
C1_Witness ==
    /\ pc = "positions_done"
    /\ ~call.dnf_flags[1]
    /\ \E k, m \in 1..cfg.num_competitors :
          /\ call.competitor_times[1][k] = call.total_times[1]
          /\ call.competitor_times[1][m] < call.total_times[1]
    /\ \E i \in 2..cfg.num_runs :
          call.dnf_flags[i] /\ history[1].positions[i] # history[1].positions[1]

\* C2: in every run of every results object, whether the player finished
\* or retired and whatever the competitors did, the position is at least 1
\* and at most num_competitors + 1.
C2_PositionInRange ==
    \A h \in DOMAIN history :
        history[h].status = "ok" =>
            \A i \in 1..cfg.num_runs :
                /\ history[h].positions[i] >= 1
                /\ history[h].positions[i] <= cfg.num_competitors + 1

\* a computed ensemble with the player first in one run and last, behind
\* every competitor, in another
C2_Witness ==
    /\ pc = "positions_done"
    /\ \E i, j \in 1..cfg.num_runs :
          /\ history[1].positions[i] = 1
          /\ history[1].positions[j] = cfg.num_competitors + 1

\* C3: at every recorded lap of a run the tire wear lies in [0, 1] and the
\* fuel lies in [0, fuel_start], fuel_start being the car's starting fuel
\* mass (CarSetup.fuel_start).
C3_TelemetryWithinBounds ==
    \A l \in DOMAIN run.fuel_out :
        /\ 0 <= run.tire_wear_out[l] /\ run.tire_wear_out[l] <= WearOne
        /\ 0 <= run.fuel_out[l] /\ run.fuel_out[l] <= cfg.fuel_start

\* the ensembles of two results objects agree: total times, DNF flags and
\* positions
SameEnsemble(a, b) ==
    /\ a.total_times = b.total_times
    /\ a.dnf_flags = b.dnf_flags
    /\ a.positions = b.positions

\* C4: two simulators built from the same configuration and seed, given the
\* same strategy after the same earlier calls, return identical total
\* times, DNF flags and positions.
C4_SameSeedSameEnsemble ==
    \A i, j \in DOMAIN history :
        (/\ history[i].inst # history[j].inst
         /\ history[i].status = "ok" /\ history[j].status = "ok"
         /\ history[i].strategy = history[j].strategy
         /\ history[i].prior = history[j].prior)
            => SameEnsemble(history[i], history[j])

\* two instances have each evaluated the same strategy as their first call
\* and at least one run of the ensemble finished
C4_Witness ==
    \E i, j \in DOMAIN history :
        /\ history[i].inst # history[j].inst
        /\ history[i].status = "ok" /\ history[j].status = "ok"
        /\ history[i].strategy = history[j].strategy
        /\ history[i].prior = history[j].prior
        /\ \E r \in 1..cfg.num_runs : ~history[i].dnf_flags[r]

\* the outcome of run r of the results object e had it been the first run
\* the loop executed: same arrays, the generator as the loop found it
RunTakenFirst(e, r) ==
    RunResult(SimulateSingleRun(cfg, e.strategy, e.rng_loop,
                                e.wear_multipliers[r], e.fuel_multipliers[r],
                                e.lap_noise[r], e.safety_cars[r]))

\* C5: once the arrays of a call are drawn, the outcome of a run (total
\* time, DNF flag, lap telemetry) depends on the inputs of its own index
\* alone, so a run gives the same outcome wherever it stands in the order
\* of execution: taken first, it gives what it gave in sequence.
C5_RunOrderIrrelevant ==
    \A h \in DOMAIN history :
        history[h].status = "ok" =>
            \A r \in 1..cfg.num_runs :
                LET alone == RunTakenFirst(history[h], r)
                IN /\ alone.total_time = history[h].total_times[r]
                   /\ alone.dnf = history[h].dnf_flags[r]
                   /\ alone.lap_times = history[h].lap_times[r]
                   /\ alone.tire_wear = history[h].tire_wear[r]
                   /\ alone.fuel = history[h].fuel_level[r]

\* C6: on one simulator the results for a strategy are the same whether it
\* is evaluated first, after other candidates, or a second time.
C6_EvaluationOrderIrrelevant ==
    \A i, j \in DOMAIN history :
        (/\ history[i].inst = history[j].inst
         /\ history[i].status = "ok" /\ history[j].status = "ok"
         /\ history[i].strategy = history[j].strategy)
            => SameEnsemble(history[i], history[j])

\* C7: compute_utility (which reads get_statistics) returns a value for
\* every ensemble simulate_strategy returned, the ensemble whose runs are
\* all DNFs included.
C7_UtilityAlwaysReturns ==
    \A h \in DOMAIN history :
        (history[h].status = "ok" /\ history[h].utility.called)
            => ~history[h].utility.raised

\* C8: a Strategy whose tire_compounds are not one more than its pit_laps
\* is not constructed; one that is constructed without engine modes given
\* has engine_modes NORMAL for each of its len(pit_laps) + 1 stints.
C8_StrategyConstruction ==
    /\ Len(strategy.tire_compounds) # Len(strategy.pit_laps) + 1
          => ~strategy.ok
    /\ (strategy.ok /\ strategy.given = {})
          => /\ Len(strategy.engine_modes) = Len(strategy.pit_laps) + 1
             /\ \A i \in 1..Len(strategy.engine_modes) :
                   strategy.engine_modes[i] = NORMAL

\* a Strategy with a pit stop constructed without engine modes, after a
\* construction with mismatched lengths was refused
C8_Witness ==
    /\ strategy.ok
    /\ strategy.given = {}
    /\ Len(strategy.pit_laps) >= 1
    /\ pc = "have_strategy"

\* C9 as stated: simulate_strategy fails for every strategy with fewer
\* distinct compounds than min_compounds_required, whatever the other race
\* conditions are.
C9_TooFewCompoundsRejected ==
    \A h \in DOMAIN history :
        Distinct(history[h].strategy.tire_compounds)
            < cfg.min_compounds_required
            => history[h].status = "rejected"

\* C9, amended: simulate_strategy fails for every strategy with fewer
\* distinct compounds than min_compounds_required whenever
\* refueling_allowed is False.
C9_TooFewCompoundsRejectedUnlessRefueling ==
    \A h \in DOMAIN history :
        (/\ ~cfg.refueling_allowed
         /\ Distinct(history[h].strategy.tire_compounds)
                < cfg.min_compounds_required)
            => history[h].status = "rejected"

\* a no-stop single-compound strategy was refused at the entry of
\* simulate_strategy
C9_Witness ==
    \E h \in DOMAIN history :
        /\ history[h].status = "rejected"
        /\ history[h].strategy.pit_laps = <<>>
        /\ ~cfg.refueling_allowed

\* the pit laps are strictly increasing and each lies in [1, race_laps)
ValidPitLaps(pit_laps, race_laps) ==
    /\ \A i \in DOMAIN pit_laps : 1 <= pit_laps[i] /\ pit_laps[i] < race_laps
    /\ \A i, j \in DOMAIN pit_laps : i < j => pit_laps[i] < pit_laps[j]

\* C10: every strategy whose runs were executed has pit laps strictly
\* increasing and within [1, race_laps); any other is refused at
\* construction or at the entry of simulate_strategy.
C10_OnlyValidPitLapsRun ==
    \A h \in DOMAIN history :
        history[h].status # "rejected"
            => ValidPitLaps(history[h].strategy.pit_laps, cfg.race_laps)

\* C11: a strategy that passed construction and the entry check of
\* simulate_strategy is simulated to the end: the call runs all num_runs
\* runs and returns a SimulationResults; no exception leaves the run loop.
C11_NoFailureMidSimulation ==
    \A h \in DOMAIN history : history[h].status \in {"rejected", "ok"}

\* C12: on every results object the statistics dict is built at most once:
\* once get_statistics has been called the dict it returned is the cached
\* one, and later calls return the cache without building another.
C12_StatisticsComputedOnce ==
    \A h \in DOMAIN history :
        history[h].status = "ok" =>
            /\ history[h].computed <= 1
            /\ history[h].computed = 1 =>
                  (history[h].stats.keys # {}
                   /\ (history[h].last_stats.keys # {}
                          => history[h].last_stats = history[h].stats))

\* C13: in a full statistics dict every time statistic (mean, median, min,
\* max, cvar_10, cvar_5) lies between the fastest and the slowest total
\* time of the runs that finished, every position statistic is taken over
\* those runs alone, and dnf_probability is the share of DNF runs among
\* all runs.
C13_DnfRunsExcluded ==
    \A h \in DOMAIN history :
        (history[h].status = "ok" /\ history[h].stats.keys = FullKeys) =>
            LET st == history[h].stats
                valid == ValidRuns(history[h])
                times == {history[h].total_times[i] : i \in valid}
                places == {100 * history[h].positions[i] : i \in valid}
                all == DOMAIN history[h].dnf_flags
            IN /\ st.min_time \in times /\ st.max_time \in times
               /\ \A x \in {st.mean_time, st.median_time, st.cvar_10,
                            st.cvar_5} :
                     st.min_time <= x /\ x <= st.max_time
               /\ \A p \in {st.mean_position, st.median_position} :
                     \E a, b \in places : a <= p /\ p <= b
               /\ st.win_probability =
                     (100 * Cardinality({i \in valid :
                                  history[h].positions[i] = 1}))
                         \div Cardinality(valid)
               /\ st.dnf_probability =
                     (100 * Cardinality(all \ valid)) \div Cardinality(all)

\* the utility as the specification writes it, in thousandths, from a
\* statistics dict st and a risk tolerance r in percent
ClaimedUtility(st, r) ==
    LET conservative ==
            6 * (100 - st.dnf_probability)
            + (400 * (st.mean_time \div 100))
                  \div ((st.mean_time + st.std_time) \div 100)
        aggressive == 7 * st.win_probability + 3 * st.podium_probability
    IN ((100 - r) * conservative + r * aggressive) \div 100

\* C14: for every results object and every risk tolerance, compute_utility
\* returns (1 - r) * conservative + r * aggressive computed from the values
\* of get_statistics.
C14_UtilityIsWeightedScore ==
    \A h \in DOMAIN history :
        (history[h].status = "ok" /\ history[h].utility.called) =>
            /\ ~history[h].utility.raised
            /\ history[h].utility.value =
                  ClaimedUtility(ComputeStatistics(history[h]),
                                 history[h].utility.risk_tolerance)

\* C15: when evaluate_all returns, simulate_strategy has been called once
\* for each strategy of the list, in order; every call that returned a
\* SimulationResults has exactly one triple in the returned list, made of
\* its strategy, its results and the utility of those results; and the
\* list is in non-increasing order of utility.
C15_OneTriplePerSimulatedCandidate ==
    opt.status = "returned" =>
        /\ Len(history) = Len(opt.strategies)
        /\ \A k \in DOMAIN history : history[k].strategy = opt.strategies[k]
        /\ \A k \in DOMAIN history :
              history[k].status = "ok" =>
                  Cardinality({t \in DOMAIN opt.results :
                                  opt.results[t].sim_results = k}) = 1
        /\ \A t \in DOMAIN opt.results :
              LET k == opt.results[t].sim_results
              IN /\ history[k].status = "ok"
                 /\ opt.results[t].strategy = opt.strategies[k]
                 /\ opt.results[t].utility = history[k].utility.value
        /\ \A t, v \in DOMAIN opt.results :
              t < v => opt.results[t].utility >= opt.results[v].utility

\* C16: evaluate_all ends by returning, never by raising; a strategy whose
\* simulate_strategy call raised is not among the returned triples, and
\* every other strategy of the list is.
C16_FailuresSkippedOthersReturned ==
    opt.status \in {"returned", "raised"} =>
        /\ opt.status = "returned"
        /\ \A k \in DOMAIN history :
              LET listed == \E t \in DOMAIN opt.results :
                                opt.results[t].sim_results = k
              IN IF history[k].status = "ok" THEN listed ELSE ~listed

\* C17: every strategy that evaluate_all, given the list built by
\* generate_strategies, passes to simulate_strategy is fuel-feasible for
\* the race: starting_fuel >= 0.95 * 1.4 * race_laps (backend revision; the
\* Strategy of the apps revision carries no fuel).
C17_OnlyFuelFeasibleSimulated ==
    (opt.generated /\ cfg.rev = "backend") =>
        \A h \in DOMAIN history :
            IsFuelFeasible(history[h].strategy, cfg.race_laps)

\* C18: the construction of the competitor field always succeeds: the
\* three tiers have non-negative sizes that add up to num_competitors, and
\* the field holds num_competitors pace offsets and num_competitors
\* constructed strategies.
C18_FieldAlwaysBuilt ==
    pc \in {"ready", "ctor_raised"} =>
        LET n == cfg.num_competitors
        IN /\ sim.ok
           /\ MidfieldSize(n) >= 0 /\ BackmarkerSize(n) >= 0
           /\ TopTeams + MidfieldSize(n) + BackmarkerSize(n) = n
           /\ Len(sim.competitor_base_pace) = n
           /\ Len(sim.competitor_strategies) = n
           /\ \A i \in DOMAIN sim.competitor_strategies :
                 sim.competitor_strategies[i].ok

\* safety_car_prob values (percent) a call is repeated with
SafetyCarProbs == {2, 50, 100}

\* the call behind the results object e made again from the same generator
\* state on the same simulator, with safety_car_prob set to p
RepeatedWith(e, p) ==
    SimulateStrategyCall([cfg EXCEPT !.safety_car_prob = p], sim, e.strategy,
                         e.rng_entry).call

\* np.mean of the total times of the finished runs of the locals cl
\* (0 when no run finished)
MeanTotalTime(cl) ==
    LET valid == {i \in DOMAIN cl.dnf_flags : ~cl.dnf_flags[i]}
    IN IF valid = {} THEN 0 ELSE MeanOver(cl.total_times, valid)

\* C19: a call repeated from the same generator state with a higher
\* safety_car_prob has every safety-car lap of the original call and
\* possibly more, the same DNF flags, and a mean total time that is not
\* lower.
C19_SafetyCarNeverLowersMean ==
    \A h \in DOMAIN history :
        history[h].status = "ok" =>
            \A p \in SafetyCarProbs :
                p >= cfg.safety_car_prob =>
                    LET alt == RepeatedWith(history[h], p)
                    IN /\ \A i \in 1..cfg.num_runs, l \in 1..cfg.race_laps :
                             history[h].safety_cars[i][l]
                                 => alt.safety_cars[i][l]
                       /\ alt.dnf_flags = history[h].dnf_flags
                       /\ MeanTotalTime(alt) >= MeanTotalTime(history[h])

\* the wear _compute_lap_time is called with on the 1-based lap i of the
\* current run: 0 after a pit stop, else the wear the previous lap left
WearEntering(i) ==
    IF i \in {run.pit_stops[k] : k \in DOMAIN run.pit_stops} THEN 0
    ELSE IF i = 1 THEN cfg.initial_tire_wear
    ELSE run.tire_wear_out[i - 1]

\* the laps of the current run whose recorded time _compute_lap_time returned
FormulaLaps ==
    {i \in 1..run.lap : ~call.safety_cars[call.run_idx + 1][i]}

\* C20: every lap time _compute_lap_time returned in the run is at least
\* 0.90 * tau_0, and so is the lap time it returns for the run's current
\* fuel and noise draws at full wear (1.0), on every compound and in every
\* engine mode.
C20_LapTimeFloor ==
    (pc = "single_run" /\ run.status \in {"loop", "returned"}) =>
        /\ \A i \in FormulaLaps : run.lap_times_out[i] >= LapFloor(cfg)
        /\ \A comp \in Compounds, mode \in {ECO, NORMAL, PUSH, OVERTAKE},
              noise \in {call.lap_noise[call.run_idx + 1][l] :
                            l \in 1..cfg.race_laps} :
              ComputeLapTime(cfg, WearOne, run.fuel, comp, mode, noise)
                  >= LapFloor(cfg)

\* a lap entered at wear 1.0 with a negative noise draw was recorded at the
\* floor
C20_Witness ==
    /\ pc = "single_run"
    /\ run.status \in {"loop", "returned"}
    /\ \E i \in FormulaLaps :
          /\ WearEntering(i) = WearOne
          /\ call.lap_noise[call.run_idx + 1][i] < 0
          /\ run.lap_times_out[i] = LapFloor(cfg)

\* the pit laps of the strategy that are not after the 1-based lap l
PitLapsUpTo(l) ==
    SelectSeq(strategy.pit_laps, LAMBDA p : p <= l)

\* C21: in a run that has not ended in a DNF, for pit laps strictly
\* increasing in [1, race_laps): the stops made so far are exactly the
\* scheduled pit laps up to the lap driven, in order and once each; the
\* total time is the recorded lap times plus one pit_loss_time per stop;
\* the compound and engine mode are those of the stint the stops opened;
\* and the wear recorded after a pit lap is one lap of wear from 0.
C21_PitStopsAsScheduled ==
    (/\ pc = "single_run"
     /\ run.status \in {"loop", "returned"}
     /\ ~run.dnf
     /\ ValidPitLaps(strategy.pit_laps, cfg.race_laps)) =>
        LET i == call.run_idx + 1
            k == Len(run.pit_stops)
        IN /\ run.pit_stops = PitLapsUpTo(run.lap)
           /\ run.stint_idx = k
           /\ run.status = "returned" => run.pit_stops = strategy.pit_laps
           /\ run.total_time = k * cfg.pit_loss_time
                                 + SumRange(run.lap_times_out, 1, run.lap)
           /\ run.current_compound = strategy.tire_compounds[k + 1]
           /\ run.current_engine_mode = strategy.engine_modes[k + 1]
           /\ (k > 0 /\ run.pit_stops[k] = run.lap) =>
                 run.tire_wear_out[run.lap]
                     = NextWear(cfg, 0, strategy.tire_compounds[k + 1],
                                call.wear_multipliers[i])

\* a run with two scheduled stops finished without a DNF, both stops made
C21_Witness ==
    /\ pc = "single_run"
    /\ run.status = "returned"
    /\ ~run.dnf
    /\ ValidPitLaps(strategy.pit_laps, cfg.race_laps)
    /\ Len(strategy.pit_laps) = 2
    /\ run.pit_stops = strategy.pit_laps
    /\ run.total_time = 2 * cfg.pit_loss_time
                          + SumRange(run.lap_times_out, 1, cfg.race_laps)

\* the output entries of the 1-based lap l of the current run are unfilled
LapUnfilled(l) ==
    /\ run.lap_times_out[l] = 0
    /\ run.tire_wear_out[l] = 0
    /\ run.fuel_out[l] = 0

\* what C22 says of the result of a run that has returned
DnfResultAsClaimed ==
    (pc = "single_run" /\ run.status = "returned") =>
        LET res == RunResult(run)
        IN /\ res.dnf <=> res.total_time = DnfTime
           /\ ~res.dnf => res.total_time < DnfTime
           /\ res.dnf =>
                 /\ run.lap < cfg.race_laps
                 /\ \A l \in (run.lap + 1)..cfg.race_laps :
                       /\ res.lap_times[l] = 0
                       /\ res.tire_wear[l] = 0
                       /\ res.fuel[l] = 0

\* C22: a run that ends in a DNF returns the flag with the sentinel total
\* time and leaves the entries of the lap the hazard triggered on and of
\* every later lap at zero; the flag is set exactly when the total time is
\* the sentinel, a finishing run's total time is below the sentinel, and
\* once the run has returned no lap changes its state.
C22_HazardEndsRunAsDnf ==
    /\ []DnfResultAsClaimed
    /\ [][run.status = "returned" => run' = run]_vars

\* a hazard triggered after at least one lap was driven and recorded: the
\* run returned as a DNF with the later laps unfilled
C22_Witness ==
    /\ pc = "single_run"
    /\ run.status = "returned"
    /\ run.dnf
    /\ RunResult(run).total_time = DnfTime
    /\ run.lap >= 1
    /\ run.lap < cfg.race_laps
    /\ run.lap_times_out[run.lap] > 0
    /\ run.total_time > 0
    /\ \A l \in (run.lap + 1)..cfg.race_laps : LapUnfilled(l)

\* C23: no lap is started on an empty tank; a run whose fuel reached 0
\* before the final lap has returned as a DNF with the sentinel total time;
\* and a run that drove the final lap without a DNF returns its real total
\* time, even when that lap emptied the tank.
C23_FuelDepletionIsDnf ==
    (pc = "single_run" /\ run.status \in {"loop", "returned"}) =>
        /\ run.status = "loop" => run.fuel > 0
        /\ (run.fuel = 0 /\ run.lap < cfg.race_laps) =>
              /\ run.status = "returned"
              /\ run.dnf
              /\ RunResult(run).total_time = DnfTime
        /\ (run.status = "returned" /\ ~run.dnf) =>
              /\ run.lap = cfg.race_laps
              /\ RunResult(run).total_time = run.total_time

\* the player path for strategy s with the pace offset base_pace as the
\* car's offset: one run with unit wear and fuel multipliers, zero noise,
\* no safety car and a reliability draw that passes
PlayerPathRun(c, base_pace, s) ==
    SimulateSingleRun([c EXCEPT !.performance_offset = base_pace], s,
                      CHOOSE r \in 1..100 : RngNext(r) = 100, 100, 100,
                      Zeros(c.race_laps), [l \in 1..c.race_laps |-> FALSE])

\* C24: for every competitor of the field, the expected race time of its
\* strategy, pace offset and starting fuel equals the total time of a
\* player run of the same strategy, offset and fuel with zero noise, no
\* safety car, unit multipliers and no DNF.
C24_ExpectedTimeIsPlayerPath ==
    (pc = "ready" /\ sim.ok) =>
        \A j \in DOMAIN sim.competitor_strategies :
            LET s == sim.competitor_strategies[j]
                base_pace == sim.competitor_base_pace[j]
                ref == PlayerPathRun(cfg, base_pace, s)
            IN (ref.status = "returned" /\ ~ref.dnf) =>
                  CalculateExpectedRaceTime(cfg, base_pace, s,
                                            RunStartFuel(cfg, s))
                      = ref.total_time

\* the competitor times of the call behind the results object e, computed
\* again from the field the simulator holds now
TimesAgainstField(e) ==
    SimulateCompetitorFieldStochastic(cfg, sim,
        RngAdvance(e.rng_entry,
                   2 * cfg.num_runs + 2 * cfg.num_runs * cfg.race_laps)).times

\* the call that has just completed took its competitor times from the
\* field the simulator holds now, and ranked every run against them
RankedAgainstField ==
    \A h \in {Len(history)} \ {0} :
        (/\ pc = "ready"
         /\ history[h].status = "ok"
         /\ history[h].inst = sim.inst) =>
            /\ history[h].competitor_times = TimesAgainstField(history[h])
            /\ history[h].positions
                   = ComputePositionsStochastic(cfg, history[h].total_times,
                                                history[h].dnf_flags,
                                                history[h].competitor_times)

\* C25: once the simulator is constructed, no step of simulate_strategy or
\* evaluate_all changes the pace offsets or the strategies of its
\* competitor field, and every call, when it completes, has ranked its runs
\* against the times drawn from that field.
C25_FieldFixedForInstance ==
    /\ [][(sim.ok /\ sim'.inst = sim.inst) =>
             /\ sim'.competitor_base_pace = sim.competitor_base_pace
             /\ sim'.competitor_strategies = sim.competitor_strategies]_vars
    /\ []RankedAgainstField

\* evaluate_all has returned after two completed calls on the instance,
\* whose competitor times differ although the field is the same
C25_Witness ==
    /\ opt.status = "returned"
    /\ \E h1, h2 \in DOMAIN history :
          /\ h1 < h2
          /\ history[h1].status = "ok"
          /\ history[h2].status = "ok"
          /\ history[h1].inst = sim.inst
          /\ history[h2].inst = sim.inst
          /\ history[h1].competitor_times # history[h2].competitor_times
          /\ history[h2].competitor_times = TimesAgainstField(history[h2])

\* the generator state after the calls strategies[1..n] made in turn on a
\* simulator whose generator was in state rng, the calls the rule check
\* rejects left out as if they had never been made
RECURSIVE RngWithoutRejected(_, _, _)
RngWithoutRejected(strategies, n, rng) ==
    IF n = 0 THEN rng
    ELSE LET before == RngWithoutRejected(strategies, n - 1, rng)
         IN IF RuleViolation(cfg, strategies[n]) THEN before
            ELSE SimulateStrategyCall(cfg, sim, strategies[n], before).rng

\* the locals of the call behind the results object e, had the rejected
\* calls before it never been made
WithoutRejected(e) ==
    SimulateStrategyCall(cfg, sim, e.strategy,
        RngWithoutRejected(e.prior, Len(e.prior),
                           NewSimulator(cfg, 1, 1).rng)).call

\* the call that has just completed after a rejected one returned what it
\* would have returned had the rejected calls before it never been made
RejectedCallsLeaveNoTrace ==
    \A h \in {Len(history)} \ {0} :
        (/\ pc = "ready"
         /\ history[h].status = "ok"
         /\ \E n \in 1..Len(history[h].prior) :
               RuleViolation(cfg, history[h].prior[n])) =>
            LET cl == WithoutRejected(history[h])
            IN /\ history[h].rng_entry = cl.rng_entry
               /\ history[h].total_times = cl.total_times
               /\ history[h].dnf_flags = cl.dnf_flags
               /\ history[h].lap_times = cl.lap_times
               /\ history[h].competitor_times = cl.competitor_times

\* C26: the step in which simulate_strategy rejects a strategy leaves the
\* simulator, its generator included, as it was, and every later completed
\* call returns the results it would have returned without the rejected
\* call.
C26_RejectionBeforeAnyWork ==
    /\ [][(Len(history') = Len(history) + 1
           /\ history'[Len(history')].status = "rejected") => sim' = sim]_vars
    /\ []RejectedCallsLeaveNoTrace

\* a call completed after a rejected call on the same simulator, from the
\* generator state the rejected call found
C26_Witness ==
    \E h \in DOMAIN history :
        /\ h > 1
        /\ history[h - 1].status = "rejected"
        /\ history[h].status = "ok"
        /\ history[h].inst = history[h - 1].inst
        /\ Len(history[h].prior) = h - 1
        /\ h = Len(history)
        /\ pc = "ready"
        /\ history[h].total_times = WithoutRejected(history[h]).total_times

\* the competitors that finished run i of the results object e
Finishers(e, i) ==
    {k \in DOMAIN e.competitor_times[i] : e.competitor_times[i][k] # DnfTime}

\* C27: in every run of every completed call a competitor's time is the
\* player's sentinel or lies below the DNF threshold; a player who finished
\* is placed ahead of every competitor at the sentinel; a player who did
\* not finish is placed behind every competitor that finished, and no
\* better than any finishing time would have placed them.
C27_DnfRankedConsistently ==
    \A h \in DOMAIN history :
        history[h].status = "ok" =>
            \A i \in 1..cfg.num_runs :
                LET e == history[h]
                    row == e.competitor_times[i]
                    finished == Cardinality(Finishers(e, i))
                IN /\ \A k \in DOMAIN row :
                         row[k] = DnfTime \/ row[k] < DnfThreshold
                   /\ e.dnf_flags[i] <=> e.total_times[i] = DnfTime
                   /\ ~e.dnf_flags[i] => e.positions[i] <= finished + 1
                   /\ e.dnf_flags[i] =>
                         /\ e.positions[i] >= finished + 1
                         /\ \A k \in Finishers(e, i) :
                               e.positions[i]
                                   >= CountBelow(row, row[k] + 1) + 1

\* a run in which the player and a competitor did not finish while another
\* competitor did, and a run in which the player finished while a
\* competitor did not
C27_Witness ==
    /\ \E h \in DOMAIN history, i \in 1..cfg.num_runs :
          /\ history[h].status = "ok"
          /\ history[h].dnf_flags[i]
          /\ Finishers(history[h], i) # {}
          /\ Finishers(history[h], i) # DOMAIN history[h].competitor_times[i]
          /\ history[h].positions[i]
                 = Cardinality(Finishers(history[h], i)) + 1
    /\ \E h \in DOMAIN history, i \in 1..cfg.num_runs :
          /\ history[h].status = "ok"
          /\ ~history[h].dnf_flags[i]
          /\ Finishers(history[h], i) # DOMAIN history[h].competitor_times[i]
          /\ history[h].positions[i]
                 <= Cardinality(Finishers(history[h], i)) + 1

\* a candidate is valid for the race: constructed, pit laps strictly
\* increasing in [1, race_laps), one compound per stint, and at least two
\* distinct compounds
ValidCandidate(s, race_laps) ==
    /\ s.ok
    /\ ValidPitLaps(s.pit_laps, race_laps)
    /\ Len(s.tire_compounds) = Len(s.pit_laps) + 1
    /\ Distinct(s.tire_compounds) >= 2

\* the combinations the loops of generate_strategies enumerate
EnumeratedCandidates(c) == OneStopCandidates(c) \o TwoStopCandidates(c)

\* C28: when evaluate_all is given the list of generate_strategies, every
\* candidate of the list is valid for the race and every enumerated
\* combination of pit lap, compounds and fuel load is in the list.
C28_GeneratedCandidatesValidAndComplete ==
    opt.generated =>
        LET returned == GenerateStrategies(cfg)
            every == EnumeratedCandidates(cfg)
        IN /\ \A k \in DOMAIN returned :
                 ValidCandidate(returned[k], cfg.race_laps)
           /\ \A k \in DOMAIN every :
                 \E j \in DOMAIN returned : returned[j] = every[k]

\* C29: under every interleaving of broadcast_update with WebSocket clients
\* connecting and disconnecting, broadcast_update never raises from
\* active_connections.remove, and once it has returned every connection
\* that was listed when it began and is still open was sent the message
\* exactly once and no connection whose send failed is left in
\* active_connections.
StayedOpen == {w \in server.at_start : server.client[w] = "open"}

C29_BroadcastSafeUnderInterleaving ==
    /\ server.broadcast # "raised"
    /\ server.broadcast = "returned" =>
          /\ \A w \in StayedOpen : server.sent[w] = 1
          /\ \A i \in 1..Len(server.disconnected) :
                ~ ListRemove(server.active_connections,
                             server.disconnected[i]).ok

\* C30: after every make_realtime_decision call (any RaceContext, a
\* non-empty result set) the call has returned rather than raised, exactly
\* one entry per call stands in decision_history, and the action of the
\* entry it appended is the first that applies of PIT NOW (the pit check),
\* FUEL SAVING MODE, PUSH FOR POSITION and MAINTAIN PACE.
ActionByPriority(race_context, simulation_results) ==
    IF ShouldPitNow(race_context, simulation_results) THEN "PIT NOW"
    ELSE IF ShouldSaveFuel(race_context) THEN "FUEL SAVING MODE"
    ELSE IF ShouldPush(race_context) THEN "PUSH FOR POSITION"
    ELSE "MAINTAIN PACE"

\* the action a recommendation names, the tire advice after PIT NOW aside
ActionNamed(recommended_action) ==
    IF recommended_action \in {PitAction(c) : c \in {"soft", "medium", "hard"}}
    THEN "PIT NOW"
    ELSE recommended_action

C30_DecisionAlwaysReturned ==
    dss.calls > 0 =>
        /\ dss.last = "returned"
        /\ Len(dss.decision_history) = dss.calls
        /\ ActionNamed(dss.decision_history[Len(dss.decision_history)]
                          .recommended_action)
             = ActionByPriority(dss.asked[1], dss.asked[2])

====
